---- MODULE Spec2Model ----
(***************************************************************************)
(* Model of the query pipeline of the UCLA women's basketball RAG system:  *)
(* RAGPipeline.process_query (src/src/rag_pipeline.py) with its            *)
(* collaborators EntityExtractor, SQLQueryGenerator and LLMManager.        *)
(*                                                                         *)
(* Texts are modelled as sequences of tokens: a user question is a         *)
(* sequence of lower/upper-case words, an SQL text a sequence of SQL       *)
(* tokens (keywords in upper case, a quoted identifier such as "TO" and a  *)
(* string literal such as 'Totals' being one token each, "\n" a line       *)
(* break).  A regular expression of the source is modelled by the token    *)
(* pattern it matches.  Python's None is the value None below.             *)
(***************************************************************************)
EXTENDS Integers, Sequences, FiniteSets, TLC

\* ------------------------------------------------------------------ bounds
\* largest number of rows the executor returns in the model
MaxRows == 2
\* largest number of fragments an SQL text under validation is made of
MaxFragments == 3
\* largest number of times one text is validated
MaxRepeats == 2
\* largest number of execute_query calls on one connector
MaxQueries == 3
\* the calls of _fuzzy_match followed on one extractor
MaxMatches == 3
\* largest number of entries in the chat history of one session
MaxHistory == 3

\* --------------------------------------------------------------- constants
\* retry budget of generate_sql_query (retry_count < 2)
MaxRetries == 2
\* similarity floor of _fuzzy_match
Threshold == 75

\* Python None, for an SQL text, a record or a reason
None == <<"<None>">>

table_name == "ucla_player_stats"

\* ------------------------------------------------------------ token helpers
Has(s, t) == \E i \in 1..Len(s) : s[i] = t

\* the phrase p (a sequence of tokens) occurs in s at position i
At(s, i, p) == /\ i >= 1
               /\ i + Len(p) - 1 <= Len(s)
               /\ \A k \in 1..Len(p) : s[i + k - 1] = p[k]

HasPhrase(s, p) == \E i \in 1..Len(s) : At(s, i, p)

\* the token after position i, "" at the end of the text; line breaks are
\* white space (\s*) and are skipped
RECURSIVE NextTok(_, _)
NextTok(s, i) == IF i + 1 > Len(s) THEN ""
                 ELSE IF s[i + 1] = "\n" THEN NextTok(s, i + 1)
                 ELSE s[i + 1]

Truthy(s) == s # None /\ s # <<>>

\* re.IGNORECASE, for the tokens of the model that are written in more than
\* one case: the identifier No and the keyword ILIKE
IgnoreCase(t) == IF t \in {"No", "NO", "no"} THEN "No"
                 ELSE IF t \in {"ILIKE", "ilike"} THEN "ILIKE"
                 ELSE t

\* ------------------------------------------------------------ validate_sql
\* GROUP\s+BY.*?AVG\s*\([^)]+\)  (DOTALL)
GroupByAggregate(s) ==
    \E i \in 1..Len(s) :
        /\ At(s, i, <<"GROUP", "BY">>)
        /\ \E j \in (i + 2)..Len(s) :
             /\ At(s, j, <<"AVG", "(">>)
             /\ \E k \in (j + 3)..Len(s) :
                  /\ s[k] = ")"
                  /\ \A m \in (j + 2)..(k - 1) : s[m] # ")"

\* WHERE.*?WITH\s+\w+\s+AS\s*\(  (DOTALL)
CteInWhere(s) ==
    \E i \in 1..Len(s) :
        /\ s[i] = "WHERE"
        /\ \E j \in (i + 1)..(Len(s) - 3) :
             /\ s[j] = "WITH"
             /\ s[j + 2] = "AS"
             /\ s[j + 3] = "("

CastTokens == {"::", "::text", "::integer", "::float", "::date"}

\* forbidden_patterns: the messages, in the order of the list
ForbiddenMsgs ==
    << "EXTRACT function not supported in SQLite",
       "INTERVAL syntax not supported in SQLite",
       "DATE_TRUNC function not supported in SQLite",
       "STDDEV function not supported in SQLite",
       "VARIANCE function not supported in SQLite",
       "ILIKE operator not supported in SQLite",
       "PostgreSQL type casting (::) not supported in SQLite",
       "SIMILAR TO operator not supported in SQLite",
       "ARRAY type not supported in SQLite",
       "UNNEST function not supported in SQLite",
       "SPLIT_PART function not supported in SQLite" >>

\* a variant of the list without the pattern for ILIKE
ForbiddenHitNoIlike(s, n) ==
    CASE n = 1 -> Has(s, "EXTRACT")
      [] n = 2 -> Has(s, "INTERVAL")
      [] n = 3 -> Has(s, "DATE_TRUNC")
      [] n = 4 -> Has(s, "STDDEV")
      [] n = 5 -> Has(s, "VARIANCE")
      [] n = 6 -> FALSE
      [] n = 7 -> \E i \in 1..Len(s) : s[i] \in CastTokens
      [] n = 8 -> HasPhrase(s, <<"SIMILAR", "TO">>)
      [] n = 9 -> Has(s, "ARRAY")
      [] n = 10 -> Has(s, "UNNEST")
      [] n = 11 -> Has(s, "SPLIT_PART")

\* re.search of the n-th forbidden pattern
ForbiddenHit(s, n) ==
    CASE n = 1 -> Has(s, "EXTRACT")
      [] n = 2 -> Has(s, "INTERVAL")
      [] n = 3 -> Has(s, "DATE_TRUNC")
      [] n = 4 -> Has(s, "STDDEV")
      [] n = 5 -> Has(s, "VARIANCE")
      [] n = 6 -> \E i \in 1..Len(s) : IgnoreCase(s[i]) = "ILIKE"
      [] n = 7 -> \E i \in 1..Len(s) : s[i] \in CastTokens
      [] n = 8 -> HasPhrase(s, <<"SIMILAR", "TO">>)
      [] n = 9 -> Has(s, "ARRAY")
      [] n = 10 -> Has(s, "UNNEST")
      [] n = 11 -> Has(s, "SPLIT_PART")

\* unquoted_special_columns: the messages, in the order of the list
UnquotedMsgs ==
    << "Column 3PTM must be quoted as \"3PTM\"",
       "Column 3PTA must be quoted as \"3PTA\"",
       "Column TO must be quoted as \"TO\"",
       "Column No must be quoted as \"No\"" >>

\* tokens after which TO is the keyword, not the column
ToKeywordFollowers == {"(", ",", "FROM", "WHERE", "ORDER", "GROUP"}
\* tokens after which No is a column reference
NoColumnFollowers == {"=", ">", "<", ">=", "<=", "<>", "IN"}

UnquotedHit(s, n) ==
    CASE n = 1 -> Has(s, "3PTM")
      [] n = 2 -> Has(s, "3PTA")
      [] n = 3 -> \E i \in 1..Len(s) :
                     s[i] = "TO" /\ NextTok(s, i) \notin ToKeywordFollowers
      [] n = 4 -> \E i \in 1..Len(s) :
                     s[i] = "No" /\ NextTok(s, i) \in NoColumnFollowers

\* syntax_issues: the messages, in the order of the list
SyntaxMsgs ==
    << "Syntax error: Empty WHERE clause",
       "Syntax error: WHERE clause starts with AND",
       "Syntax error: WHERE clause starts with OR",
       "Syntax error: Empty parentheses" >>

SyntaxHit(s, n) ==
    CASE n = 1 -> \E i \in 1..Len(s) : s[i] = "WHERE" /\ NextTok(s, i) = ")"
      [] n = 2 -> \E i \in 1..Len(s) : s[i] = "WHERE" /\ NextTok(s, i) = "AND"
      [] n = 3 -> \E i \in 1..Len(s) : s[i] = "WHERE" /\ NextTok(s, i) = "OR"
      [] n = 4 -> \E i \in 1..Len(s) : s[i] = "(" /\ NextTok(s, i) = ")"

\* the least n in 1..Len(msgs) whose rule hits, 0 when none does
FirstHit(hits) ==
    IF \E n \in DOMAIN hits : hits[n]
    THEN CHOOSE n \in DOMAIN hits : hits[n] /\ \A m \in 1..(n - 1) : ~hits[m]
    ELSE 0

Verdict(ok, why) == [valid |-> ok, reason |-> why]

\* a variant that looks for the table before the forbidden patterns
ValidateTableFirst(sql_query) ==
    LET s == sql_query
        f == FirstHit([n \in DOMAIN ForbiddenMsgs |-> ForbiddenHit(s, n)])
        u == FirstHit([n \in DOMAIN UnquotedMsgs |-> UnquotedHit(s, n)])
        y == FirstHit([n \in DOMAIN SyntaxMsgs |-> SyntaxHit(s, n)])
    IN  IF s = None \/ \A i \in 1..Len(s) : s[i] = "\n"
          THEN Verdict(FALSE, "Empty SQL query")
        ELSE IF GroupByAggregate(s)
          THEN Verdict(FALSE, "SQLite syntax error: aggregate functions are not allowed in the GROUP BY clause")
        ELSE IF CteInWhere(s)
          THEN Verdict(FALSE, "SQLite syntax error: CTE (WITH clause) cannot be used inside WHERE clause")
        ELSE IF ~Has(s, table_name)
          THEN Verdict(FALSE, "Query must reference table 'ucla_player_stats'")
        ELSE IF f # 0 THEN Verdict(FALSE, ForbiddenMsgs[f])
        ELSE IF u # 0 THEN Verdict(FALSE, UnquotedMsgs[u])
        ELSE IF y # 0 THEN Verdict(FALSE, SyntaxMsgs[y])
        ELSE IF ~Has(s, "SELECT")
          THEN Verdict(FALSE, "Query must contain SELECT statement")
        ELSE Verdict(TRUE, "None")

validate_sql(sql_query) ==
    LET s == sql_query
        f == FirstHit([n \in DOMAIN ForbiddenMsgs |-> ForbiddenHit(s, n)])
        u == FirstHit([n \in DOMAIN UnquotedMsgs |-> UnquotedHit(s, n)])
        y == FirstHit([n \in DOMAIN SyntaxMsgs |-> SyntaxHit(s, n)])
    IN  IF s = None \/ \A i \in 1..Len(s) : s[i] = "\n"
          THEN Verdict(FALSE, "Empty SQL query")
        ELSE IF GroupByAggregate(s)
          THEN Verdict(FALSE, "SQLite syntax error: aggregate functions are not allowed in the GROUP BY clause")
        ELSE IF CteInWhere(s)
          THEN Verdict(FALSE, "SQLite syntax error: CTE (WITH clause) cannot be used inside WHERE clause")
        ELSE IF f # 0 THEN Verdict(FALSE, ForbiddenMsgs[f])
        ELSE IF u # 0 THEN Verdict(FALSE, UnquotedMsgs[u])
        ELSE IF y # 0 THEN Verdict(FALSE, SyntaxMsgs[y])
        ELSE IF ~Has(s, table_name)
          THEN Verdict(FALSE, "Query must reference table 'ucla_player_stats'")
        ELSE IF ~Has(s, "SELECT")
          THEN Verdict(FALSE, "Query must contain SELECT statement")
        ELSE Verdict(TRUE, "None")

\* ------------------------------------------------- rewriting of token texts
\* f as a sequence whose elements are computed once
Tup(f) == f \o <<>>

\* F(e), with e computed once
Once(e, F(_)) == CHOOSE r \in {F(v) : v \in {e}} : TRUE

RECURSIVE Concat(_)
Concat(ss) == IF ss = <<>> THEN <<>> ELSE Head(ss) \o Concat(Tail(ss))
Flat(ss) == Concat(Tup(ss))

\* s with the tokens at the positions of D removed
Without(s, D) == Flat([i \in 1..Len(s) |-> IF i \in D THEN <<>> ELSE <<s[i]>>])

\* str.strip(): leading and trailing line breaks removed
RECURSIVE Strip(_)
Strip(s) == IF s = <<>> THEN s
            ELSE IF Head(s) = "\n" THEN Strip(Tail(s))
            ELSE IF s[Len(s)] = "\n" THEN Strip(SubSeq(s, 1, Len(s) - 1))
            ELSE s

\* the position of the first ")" after position i that closes a group
\* written [^)]+ : at least one token lies between; 0 when there is none
CloseAfter(s, i) ==
    IF \E k \in (i + 2)..Len(s) : s[k] = ")"
    THEN LET k == CHOOSE k \in (i + 1)..Len(s) :
                      s[k] = ")" /\ \A m \in (i + 1)..(k - 1) : s[m] # ")"
         IN  IF k >= i + 2 THEN k ELSE 0
    ELSE 0

Min(a, b) == IF a <= b THEN a ELSE b

\* ------------------------------------------- _extract_sql_from_response
FirstPos(s, t) == CHOOSE i \in 1..Len(s) : s[i] = t /\ \A m \in 1..(i - 1) : s[m] # t

\* the tokens between the first t1 and the first t2 after it
Between(s, t1, t2) ==
    LET i == FirstPos(s, t1)
        j == CHOOSE j \in (i + 1)..Len(s) :
                 s[j] = t2 /\ \A m \in (i + 1)..(j - 1) : s[m] # t2
    IN  SubSeq(s, i + 1, j - 1)

Fenced(s, t1, t2) ==
    /\ Has(s, t1)
    /\ \E j \in (FirstPos(s, t1) + 1)..Len(s) : s[j] = t2

\* the tokens FenceSql, Fence and Tick stand for the markdown fence that opens
\* an sql block, the fence that closes it, and a single backquote
FenceSql == "[fence-sql]"
Fence == "[fence]"
Tick == "[tick]"

_extract_sql_from_response(response) ==
    IF ~Truthy(response) THEN <<>>
    ELSE IF Fenced(response, FenceSql, Fence)
      THEN Strip(Between(response, FenceSql, Fence))
    ELSE IF Fenced(response, Tick, Tick)
      THEN Strip(Between(response, Tick, Tick))
    ELSE IF Has(response, "SELECT")
      THEN Strip(SubSeq(response, FirstPos(response, "SELECT"), Len(response)))
    ELSE Strip(response)

\* --------------------------------------------- _ensure_sqlite_compatibility
\* the query returned by _fix_opponent_strength_query
OpponentStrengthQuery ==
    << "SELECT", "\n", "'vs_all_opponents'", "as", "analysis_type", ",", "\n",
       "COUNT", "(", "*", ")", "as", "games_played", ",", "\n",
       "ROUND", "(", "AVG", "(", "Pts", ")", ",", "1", ")", "as", "avg_points", ",", "\n",
       "ROUND", "(", "AVG", "(", "Reb", ")", ",", "1", ")", "as", "avg_rebounds", ",", "\n",
       "ROUND", "(", "CAST", "(", "SUM", "(", "FGM", ")", "AS", "REAL", ")", "/",
           "NULLIF", "(", "SUM", "(", "FGA", ")", ",", "0", ")", "*", "100", ",", "1", ")",
           "as", "fg_percentage", ",", "\n",
       "ROUND", "(", "AVG", "(", "Blk", ")", ",", "1", ")", "as", "avg_blocks", ",", "\n",
       "GROUP_CONCAT", "(", "DISTINCT", "Opponent", ")", "as", "opponents_faced", "\n",
       "FROM", "ucla_player_stats", "\n",
       "WHERE", "Name", "=", "'Betts, Lauren'", "\n",
       "AND", "Name", "NOT", "IN", "(", "'Totals'", ",", "'TM'", ",", "'Team'", ")" >>

\* the SELECT list shared by the two close-games templates
CloseGamesHead ==
    << "SELECT", "\n", "Name", ",", "\n",
       "COUNT", "(", "*", ")", "as", "games_played", ",", "\n",
       "ROUND", "(", "AVG", "(", "Pts", ")", ",", "1", ")", "as", "avg_pts", ",", "\n",
       "ROUND", "(", "AVG", "(", "Ast", ")", ",", "1", ")", "as", "avg_ast", ",", "\n",
       "ROUND", "(", "AVG", "(", "Reb", ")", ",", "1", ")", "as", "avg_reb", ",", "\n",
       "ROUND", "(", "AVG", "(", "\"TO\"", ")", ",", "1", ")", "as", "avg_to", ",", "\n",
       "ROUND", "(", "CAST", "(", "SUM", "(", "FGM", ")", "AS", "REAL", ")", "/",
           "NULLIF", "(", "SUM", "(", "FGA", ")", ",", "0", ")", "*", "100", ",", "1", ")",
           "as", "fg_pct", ",", "\n",
       "ROUND", "(", "CAST", "(", "SUM", "(", "\"3PTM\"", ")", "AS", "REAL", ")", "/",
           "NULLIF", "(", "SUM", "(", "\"3PTA\"", ")", ",", "0", ")", "*", "100", ",", "1", ")",
           "as", "three_pt_pct" >>

CloseGamesWhere ==
    << "FROM", "ucla_player_stats", "\n",
       "WHERE", "Name", "IN", "(", "'Rice, Kiki'", ",", "'Jones, Londynn'", ")", "\n",
       "AND", "Name", "NOT", "IN", "(", "'Totals'", ",", "'TM'", ",", "'Team'", ")", "\n" >>

CloseGamesTail == << "GROUP", "BY", "Name", "\n", "ORDER", "BY", "avg_pts", "DESC" >>

\* the query returned by _fix_cte_in_where_clause for a close-games text
CteCloseGamesQuery ==
    CloseGamesHead
    \o << ",", "\n",
          "ROUND", "(", "CAST", "(", "SUM", "(", "FTM", ")", "AS", "REAL", ")", "/",
          "NULLIF", "(", "SUM", "(", "FTA", ")", ",", "0", ")", "*", "100", ",", "1", ")",
          "as", "ft_pct", "\n" >>
    \o CloseGamesWhere
    \o << "AND", "game_date", "IN", "(", "\n",
          "SELECT", "game_date", "\n", "FROM", "ucla_player_stats", "\n",
          "WHERE", "Name", "=", "'Totals'", "\n",
          "AND", "Pts", "BETWEEN", "70", "AND", "90", "\n", ")", "\n" >>
    \o CloseGamesTail

\* positions of WITH <word> AS ( ; the first three tokens are dropped
CteHeads(s) == {j \in 1..Len(s) : j + 3 <= Len(s) /\ s[j] = "WITH"
                                  /\ s[j + 2] = "AS" /\ s[j + 3] = "("}

_fix_cte_in_where_clause(s) ==
    IF (Has(s, "close") \/ Has(s, "close_games")) /\ (\E i \in 1..Len(s) :
            s[i] \in {"'Rice, Kiki'", "'Jones, Londynn'", "Rice", "Jones"})
    THEN CteCloseGamesQuery
    ELSE Without(s, UNION {{j, j + 1, j + 2} : j \in CteHeads(s)})

\* step 1 and 2 of the repair: the two special-cased failing patterns
FixFailingPatterns(s) ==
    LET s1 == IF GroupByAggregate(s) /\ Has(s, "opponent_strength")
              THEN OpponentStrengthQuery ELSE s
    IN  IF CteInWhere(s1) THEN _fix_cte_in_where_clause(s1) ELSE s1

\* tokens that carry a quote character: string literals and quoted identifiers
StringLiterals == {"'Rice, Kiki'", "'Jones, Londynn'", "'Betts, Lauren'", "'Totals'",
                   "'TM'", "'Team'", "'USC'", "'7'", "'%Y'", "'%m'", "'%d'",
                   "'+7 days'", "'-7 days'", "'+7 months'", "'-7 months'",
                   "'vs_all_opponents'"}
SpecialColumns == {"TO", "3PTM", "3PTA", "3PT", "No", "OR-DR"}
SimpleColumns == {"Name", "Pts", "Reb", "Ast", "Stl", "Blk", "Min", "FG", "FT",
                  "Opponent", "game_date"}

\* "x" for the identifier x, and ""x"" for the doubly quoted one
Quoted(t) ==
    CASE t = "TO" -> "\"TO\""       [] t = "3PTM" -> "\"3PTM\""
      [] t = "3PTA" -> "\"3PTA\""   [] t = "3PT" -> "\"3PT\""
      [] t = "No" -> "\"No\""       [] t = "OR-DR" -> "\"OR-DR\""
      [] t = "Name" -> "\"Name\""   [] t = "Pts" -> "\"Pts\""
      [] t = "Reb" -> "\"Reb\""     [] t = "Ast" -> "\"Ast\""
      [] t = "Stl" -> "\"Stl\""     [] t = "Blk" -> "\"Blk\""
      [] t = "Min" -> "\"Min\""     [] t = "FG" -> "\"FG\""
      [] t = "FT" -> "\"FT\""       [] t = "Opponent" -> "\"Opponent\""
      [] t = "game_date" -> "\"game_date\""
DoublyQuoted(t) ==
    CASE t = "TO" -> "\"\"TO\"\""       [] t = "3PTM" -> "\"\"3PTM\"\""
      [] t = "3PTA" -> "\"\"3PTA\"\""   [] t = "3PT" -> "\"\"3PT\"\""
      [] t = "No" -> "\"\"No\"\""       [] t = "OR-DR" -> "\"\"OR-DR\"\""

QuotedIdentifiers == {Quoted(t) : t \in SpecialColumns \cup SimpleColumns}
                     \cup {DoublyQuoted(t) : t \in SpecialColumns}
HasQuoteChar(t) == t \in StringLiterals \cup QuotedIdentifiers

\* EXTRACT\s*\(\s*<unit>\s+FROM\s+([^)]+)\)  ->  strftime('<fmt>', \1)
ExtractRule(s, unit, fmt) ==
    LET H == {i \in 1..Len(s) : At(s, i, <<"EXTRACT", "(", unit, "FROM">>)
                                /\ CloseAfter(s, i + 3) # 0}
    IN  Tup([i \in 1..Len(s) |->
            IF i \in H THEN "strftime"
            ELSE IF i - 2 \in H THEN fmt
            ELSE IF i - 3 \in H THEN ","
            ELSE s[i]])

\* ([^'"]+)\s*<op>\s*INTERVAL\s+'(\d+)'\s*<unit>  ->  date(\1, '<op>\2 <unit>s')
\* the number literals of the model are those of IntervalLit
IntervalLit(op, unit) ==
    CASE op = "+" /\ unit = "DAY" -> "'+7 days'"
      [] op = "-" /\ unit = "DAY" -> "'-7 days'"
      [] op = "+" /\ unit = "MONTH" -> "'+7 months'"
      [] op = "-" /\ unit = "MONTH" -> "'-7 months'"

\* where group 1 of the match ending before position p begins: after the last
\* token before p that carries a quote character
GroupStart(s, p) ==
    LET Q == {i \in 1..(p - 1) : HasQuoteChar(s[i])}
    IN  IF Q = {} THEN 1 ELSE (CHOOSE i \in Q : \A j \in Q : j <= i) + 1

IntervalRule(s, op, unit) ==
    LET H == {p \in 1..Len(s) : At(s, p, <<op, "INTERVAL", "'7'", unit>>)
                                /\ GroupStart(s, p) < p}
        B == {GroupStart(s, p) : p \in H}
    IN  Flat([i \in 1..Len(s) |->
            IF i \in H THEN <<",">>
            ELSE IF i - 1 \in H THEN <<>>
            ELSE IF i - 2 \in H THEN <<IntervalLit(op, unit)>>
            ELSE IF i - 3 \in H THEN <<")">>
            ELSE IF i \in B THEN <<"date", "(", s[i]>>
            ELSE <<s[i]>>])

\* \bSPLIT_PART\s*\([^)]+\)  ->  substr
SplitPartRule(s) ==
    LET H == {i \in 1..Len(s) : At(s, i, <<"SPLIT_PART", "(">>)
                                /\ CloseAfter(s, i + 1) # 0}
        D == UNION {(i + 1)..CloseAfter(s, i + 1) : i \in H}
    IN  Without(Tup([i \in 1..Len(s) |-> IF i \in H THEN "substr" ELSE s[i]]), D)

\* \b<fn>\s*\(\s*([^)]+)\s*\)  ->  <pre> (\1 - sub_avg) * (\1 - sub_avg) <post>
SpreadRule(s, fn, pre, post) ==
    LET H == {i \in 1..Len(s) : At(s, i, <<fn, "(">>) /\ CloseAfter(s, i + 1) # 0}
        C == {CloseAfter(s, i + 1) : i \in H}
        Arg(k) == LET i == CHOOSE i \in H : CloseAfter(s, i + 1) = k
                  IN  SubSeq(s, i + 2, k - 1)
    IN  Flat([i \in 1..Len(s) |->
            IF i \in H THEN pre
            ELSE IF i - 1 \in H THEN <<"(">>
            ELSE IF i \in C
              THEN <<"-", "sub_avg", ")", "*", "(">> \o Arg(i)
                   \o <<"-", "sub_avg", ")">> \o post
            ELSE <<s[i]>>])

\* the column-quoting entries of the replacement table (IGNORECASE); an
\* identifier that is quoted already is matched too and becomes doubly quoted
QuoteRule(s, col) ==
    Tup([i \in 1..Len(s) |->
        LET follows == NextTok(s, i)
            go == CASE col = "TO" -> follows \notin ToKeywordFollowers
                    [] col = "No" -> follows \in NoColumnFollowers
                    [] OTHER -> TRUE
        IN  IF IgnoreCase(s[i]) = col /\ go THEN Quoted(col)
            ELSE IF s[i] = Quoted(col) /\ col # "No" THEN DoublyQuoted(col)
            ELSE s[i]])

\* the n-th entry of the replacement table, applied to s
Replacement(n, s) ==
    CASE n = 1 -> ExtractRule(s, "YEAR", "'%Y'")
      [] n = 2 -> ExtractRule(s, "MONTH", "'%m'")
      [] n = 3 -> ExtractRule(s, "DAY", "'%d'")
      [] n = 4 -> IntervalRule(s, "+", "DAY")
      [] n = 5 -> IntervalRule(s, "-", "DAY")
      [] n = 6 -> IntervalRule(s, "+", "MONTH")
      [] n = 7 -> IntervalRule(s, "-", "MONTH")
      [] n = 8 -> Without(s, {i \in 1..Len(s) : s[i] \in CastTokens \ {"::"}})
      [] n = 9 -> Tup([i \in 1..Len(s) |->
                      IF IgnoreCase(s[i]) = "ILIKE" THEN "LIKE" ELSE s[i]])
      [] n = 10 -> SplitPartRule(s)
      [] n = 11 -> SpreadRule(s, "STDDEV", <<"SQRT", "(", "AVG", "(">>, <<")", ")">>)
      [] n = 12 -> SpreadRule(s, "VARIANCE", <<"AVG", "(">>, <<")">>)
      [] n = 13 -> QuoteRule(s, "3PTM")
      [] n = 14 -> QuoteRule(s, "3PTA")
      [] n = 15 -> QuoteRule(s, "3PT")
      [] n = 16 -> QuoteRule(s, "TO")
      [] n = 17 -> QuoteRule(s, "No")
      [] n = 18 -> QuoteRule(s, "OR-DR")

\* for pattern, replacement in replacements.items(): the first n entries
RECURSIVE Replacements(_, _)
Replacements(s, n) ==
    IF n = 0 THEN s
    ELSE Once(Replacements(s, n - 1), LAMBDA v : Replacement(n, v))

\* the number of tokens t in s
Count(s, t) == Cardinality({i \in 1..Len(s) : s[i] = t})

\* the line breaks between position i and the next token
GapAfter(s, i) == {j \in (i + 1)..Len(s) : \A m \in (i + 1)..j : s[m] = "\n"}

\* WHERE\s*\) -> ) ; WHERE\s*AND -> WHERE ; WHERE\s*OR -> WHERE
DropAfterWhere(s, t, keepWhere) ==
    LET H == {i \in 1..Len(s) : s[i] = "WHERE" /\ NextTok(s, i) = t}
        D == UNION {GapAfter(s, i) \cup
                    (IF keepWhere THEN {Cardinality(GapAfter(s, i)) + i + 1}
                                  ELSE {i}) : i \in H}
    IN  Without(s, D)

\* \(\s*\) -> (SELECT 1)
EmptyParens(s) ==
    LET H == {i \in 1..Len(s) : s[i] = "(" /\ NextTok(s, i) = ")"}
    IN  Flat([i \in 1..Len(s) |->
            IF i \in H THEN <<"(", "SELECT", "1">>
            ELSE IF \E h \in H : i \in GapAfter(s, h) THEN <<>>
            ELSE <<s[i]>>])

\* ""([^"]+)"" -> "\1"
DoubleDoubleQuotes(s) ==
    Tup([i \in 1..Len(s) |->
        IF \E t \in SpecialColumns : s[i] = DoublyQuoted(t)
        THEN Quoted(CHOOSE t \in SpecialColumns : s[i] = DoublyQuoted(t))
        ELSE s[i]])

\* positions where a line starts with ( SELECT   (^\s*\(\s*SELECT, MULTILINE)
LineStartSelect(s) ==
    {i \in 1..Len(s) : /\ s[i] = "("
                       /\ NextTok(s, i) = "SELECT"
                       /\ (i = 1 \/ s[i - 1] = "\n")}

\* a text that starts a line with ( SELECT and has no WITH gets a CTE head
MissingWith(s) ==
    IF LineStartSelect(s) # {} /\ ~Has(s, "WITH")
    THEN LET t == Flat([i \in 1..Len(s) |->
                     IF i \in LineStartSelect(s)
                       THEN <<"WITH", "temp_table", "AS", "(">>
                     ELSE IF \E h \in LineStartSelect(s) : i \in GapAfter(s, h)
                       THEN <<>>
                     ELSE <<s[i]>>])
             J == {i \in 1..Len(t) : At(t, i, <<"\n", ")", "\n", "SELECT">>)}
         IN  IF Count(t, "(") > Count(t, ")") THEN Without(t, J) ELSE t
    ELSE s

\* \)\s*SELECT -> ) SELECT
OrphanedClose(s) ==
    Without(s, UNION {GapAfter(s, i) : i \in {i \in 1..Len(s) :
                          s[i] = ")" /\ NextTok(s, i) = "SELECT"}})

RECURSIVE Closers(_)
Closers(n) == IF n = 0 THEN <<>> ELSE <<")">> \o Closers(n - 1)

\* re.sub(r'\)\s*$', '', count=1), n times
RECURSIVE TrimClosers(_, _)
TrimClosers(s, n) ==
    IF n = 0 THEN s
    ELSE LET L == {i \in 1..Len(s) : s[i] = ")" /\ NextTok(s, i) = ""}
         IN  IF L = {} THEN s
             ELSE TrimClosers(SubSeq(s, 1, (CHOOSE i \in L : TRUE) - 1), n - 1)

BalanceParens(s) ==
    LET open_parens == Count(s, "(")
        close_parens == Count(s, ")")
    IN  IF open_parens > close_parens
          THEN s \o Closers(open_parens - close_parens)
        ELSE IF close_parens > open_parens
          THEN TrimClosers(s, close_parens - open_parens)
        ELSE s

\* quotes are dropped from the simple columns and put on the special ones
NormalizeQuoting(s) ==
    Tup([i \in 1..Len(s) |->
        IF \E c \in SimpleColumns : s[i] = Quoted(c)
          THEN CHOOSE c \in SimpleColumns : s[i] = Quoted(c)
        ELSE IF s[i] \in SpecialColumns THEN Quoted(s[i])
        ELSE s[i]])

\* the n-th statement of _ensure_sqlite_compatibility, applied to s
Compatibility(n, s) ==
    CASE n = 1 -> FixFailingPatterns(s)
      [] n = 2 -> Replacements(s, 18)
      [] n = 3 -> DropAfterWhere(s, ")", FALSE)
      [] n = 4 -> DropAfterWhere(s, "AND", TRUE)
      [] n = 5 -> DropAfterWhere(s, "OR", TRUE)
      [] n = 6 -> EmptyParens(s)
      [] n = 7 -> DoubleDoubleQuotes(s)
      [] n = 8 -> MissingWith(s)
      [] n = 9 -> OrphanedClose(s)
      [] n = 10 -> BalanceParens(s)
      [] n = 11 -> NormalizeQuoting(s)

\* the statements up to the n-th, one after the other
RECURSIVE Statements(_, _)
Statements(s, n) ==
    IF n = 0 THEN s
    ELSE Once(Statements(s, n - 1), LAMBDA v : Compatibility(n, v))

_ensure_sqlite_compatibility(sql_query) ==
    IF ~Truthy(sql_query) THEN sql_query ELSE Statements(sql_query, 11)

\* ------------------------------------------------------------- LLMManager
\* LLMManager.__init__ leaves the manager ready, or without a model and with
\* initialization_error set: the credential is absent, or the client failed
LLMStates == {"ready", "missing_key", "init_failed"}

initialization_error(llm) ==
    CASE llm = "missing_key" ->
           <<"Error initializing Anthropic LLM: ",
             "ANTHROPIC_API_KEY environment variable not set. ">>
      [] llm = "init_failed" ->
           <<"Error initializing Anthropic LLM: ", "client construction failed">>
      [] OTHER -> None

Raise(type, msg) == [raised |-> TRUE, type |-> type, msg |-> msg, value |-> None]
Return(v) == [raised |-> FALSE, type |-> "", msg |-> <<>>, value |-> v]

\* what the text-generation service does with one request: it answers with a
\* text, or the call fails
ServiceError == [kind |-> "error"]

\* generate_text: raises ValueError without a model; with one, the call to
\* the service returns the reply or raises
generate_text(llm, reply) ==
    IF llm # "ready"
      THEN Raise("ValueError", <<"LLM not initialized: ">> \o initialization_error(llm))
    ELSE IF reply.kind = "error" THEN Raise("APIError", <<"service call failed">>)
    ELSE Return(reply)

\* -------------------------------------------------------- EntityExtractor
\* dict.get(key): the value, NoValue when the key is absent or None
NoValue == [type |-> "none", v |-> <<>>]
Get(d, key) == IF key \in DOMAIN d THEN d[key] ELSE NoValue
\* a string (one that stands for a list of one name when iterated as names)
Text(v) == [type |-> "str", v |-> <<v>>]
List(v) == [type |-> "list", v |-> v]
Number(v) == [type |-> "int", v |-> <<v>>]
IsSet(v) == v.type # "none" /\ v.v # <<>> /\ v.v # <<"">>

\* a dict with the entries of d and key -> v
With(d, key, v) == [k \in DOMAIN d \cup {key} |-> IF k = key THEN v ELSE d[k]]
EmptyDict == [k \in {} |-> NoValue]

\* the distinct values _load_common_entities reads from the database
players == <<"Rice, Kiki", "Jones, Londynn", "Betts, Lauren">>
player_numbers == <<"51", "7">>
opponents == <<"USC", "Stanford">>

\* process.extractOne: the similarity of a raw text and an option, 0..100
Score(raw, option) ==
    CASE raw = "Kiki Rice" /\ option = "Rice, Kiki" -> 95
      [] raw = "Kiki Rice" -> 30
      [] raw = "Londyn Jones" /\ option = "Jones, Londynn" -> 92
      [] raw = "Unknown Person" /\ option = "Jones, Londynn" -> 45
      [] raw = "Unknown Person" -> 38
      [] raw = "USC" /\ option = "USC" -> 100
      [] raw = "51" /\ option = "51" -> 100
      [] OTHER -> 20

\* the first option with the highest score
extractOne(raw, options) ==
    LET i == CHOOSE i \in 1..Len(options) :
                 /\ \A j \in 1..Len(options) : Score(raw, options[j]) <= Score(raw, options[i])
                 /\ \A j \in 1..(i - 1) : Score(raw, options[j]) < Score(raw, options[i])
    IN  [match |-> options[i], score |-> Score(raw, options[i])]

\* f"{query}:{','.join(str(opt) for opt in options[:5])}"
cache_key(raw, options) == <<raw>> \o SubSeq(options, 1, Min(5, Len(options)))

\* a variant that takes the nearest option whatever its score
FuzzyMatchNearest(raw, options, cache) ==
    IF raw = "" \/ options = <<>> THEN [match |-> "", cache |-> cache]
    ELSE [match |-> extractOne(raw, options).match,
          cache |-> With(cache, cache_key(raw, options), extractOne(raw, options).match)]

\* _fuzzy_match: the match ("" for None) and the cache after the call
_fuzzy_match(raw, options, cache) ==
    IF raw = "" \/ options = <<>> THEN [match |-> "", cache |-> cache]
    ELSE IF cache_key(raw, options) \in DOMAIN cache
      THEN [match |-> cache[cache_key(raw, options)], cache |-> cache]
    ELSE Once(extractOne(raw, options),
              LAMBDA best :
                IF best.score >= Threshold
                  THEN [match |-> best.match,
                        cache |-> With(cache, cache_key(raw, options), best.match)]
                ELSE [match |-> "", cache |-> cache])

\* the loop of _resolve_entities over the player names
RECURSIVE ResolveNames(_, _)
ResolveNames(names, cache) ==
    IF names = <<>> THEN [names |-> <<>>, cache |-> cache]
    ELSE Once(_fuzzy_match(Head(names), players, cache),
              LAMBDA m :
                Once(ResolveNames(Tail(names), m.cache),
                     LAMBDA rest :
                       [names |-> (IF m.match # "" THEN <<m.match>> ELSE <<>>)
                                  \o rest.names,
                        cache |-> rest.cache]))

CopiedFields == <<"statistic", "comparison", "value", "exclude_totals",
                  "is_comparison_query">>

\* the player names of _resolve_entities: the resolved dict and the cache
ResolvePlayers(entities, cache) ==
    Once(IF IsSet(Get(entities, "player_names"))
           THEN ResolveNames(Get(entities, "player_names").v, cache)
         ELSE [names |-> <<>>, cache |-> cache],
         LAMBDA rn :
           [resolved |-> IF rn.names # <<>>
                         THEN With(EmptyDict, "player_names", List(rn.names))
                         ELSE EmptyDict,
            cache |-> rn.cache])

\* one fuzzy-matched field of _resolve_entities (player_number, opponent)
ResolveField(entities, field, options, st) ==
    Once(IF IsSet(Get(entities, field))
           THEN _fuzzy_match(Get(entities, field).v[1], options, st.cache)
         ELSE [match |-> "", cache |-> st.cache],
         LAMBDA m :
           [resolved |-> IF m.match # "" THEN With(st.resolved, field, Text(m.match))
                         ELSE st.resolved,
            cache |-> m.cache])

\* the fields copied as they are
CopyFields(entities, resolved) ==
    [k \in DOMAIN resolved
           \cup {f \in DOMAIN entities :
                    Has(CopiedFields, f) /\ entities[f].type # "none"} |->
        IF Has(CopiedFields, k) /\ k \in DOMAIN entities /\ entities[k].type # "none"
        THEN entities[k] ELSE resolved[k]]

\* _resolve_entities: raises TypeError when player_names is not iterable
_resolve_entities(entities, cache) ==
    IF IsSet(Get(entities, "player_names")) /\ Get(entities, "player_names").type = "int"
      THEN [raised |-> TRUE, type |-> "TypeError",
            msg |-> <<"'int' object is not iterable">>, value |-> EmptyDict,
            cache |-> cache]
    ELSE Once(Once(Once(ResolvePlayers(entities, cache),
                        LAMBDA st : ResolveField(entities, "player_number",
                                                 player_numbers, st)),
                   LAMBDA st : ResolveField(entities, "opponent", opponents, st)),
              LAMBDA st : [raised |-> FALSE, type |-> "", msg |-> <<>>,
                           value |-> CopyFields(entities, st.resolved),
                           cache |-> st.cache])

\* the questions of the model, as word sequences; they are written in lower
\* case apart from the names, so that user_query.lower() keeps the keywords
Q_AveragePoints == <<"average", "points">>
Q_CloseGames == <<"compare", "Rice", "and", "Jones", "in", "close", "games">>
Q_Best == <<"best", "rebounds">>
Q_Games == <<"how", "many", "games">>
UserQueries == {Q_AveragePoints, Q_CloseGames, Q_Best, Q_Games}

\* the statistic keywords of _pattern_extract_entities, in the order tried
StatKeywords == <<"points", "rebounds", "assists", "steals", "blocks", "turnovers",
                  "pts", "reb", "ast", "stl", "blk", "to", "field goals",
                  "three pointers", "free throws">>
StatMapping(k) ==
    CASE k = "pts" -> "points"    [] k = "reb" -> "rebounds"
      [] k = "ast" -> "assists"   [] k = "stl" -> "steals"
      [] k = "blk" -> "blocks"    [] k = "to" -> "turnovers"
      [] OTHER -> k

\* the keyword k is part of the lower-cased question: as a word of it, or
\* inside the word "total" for the keyword "to"
InQuery(query, k) == Has(query, k) \/ (k = "to" /\ Has(query, "total"))

\* _pattern_extract_entities: no question of the model carries a jersey
\* number, a comparison or a digit, so those fields stay None
_pattern_extract_entities(query) ==
    LET hits == [n \in DOMAIN StatKeywords |-> InQuery(query, StatKeywords[n])]
        base == [k \in {"player_name", "player_number", "opponent", "statistic",
                        "comparison", "value"} |-> NoValue]
    IN  IF FirstHit(hits) = 0 THEN base
        ELSE With(base, "statistic", Text(StatMapping(StatKeywords[FirstHit(hits)])))

\* the answers of the service to the extraction prompt: a text with a JSON
\* object, with a malformed one, or without any
JsonReply(fields) == [kind |-> "text", json |-> "object", entities |-> fields]
ExtractReplies ==
    { ServiceError,
      [kind |-> "text", json |-> "absent", entities |-> EmptyDict],
      [kind |-> "text", json |-> "malformed", entities |-> EmptyDict],
      JsonReply(With(EmptyDict, "statistic", Text("points"))),
      JsonReply(With(EmptyDict, "player_names", List(<<"Kiki Rice">>))),
      JsonReply(With(With(EmptyDict, "player_names", Text("Kiki Rice")),
                     "opponent", Text("USC"))),
      JsonReply(With(EmptyDict, "player_names", List(<<"Unknown Person">>))),
      JsonReply(With(EmptyDict, "player_names", Number("5"))) }

\* extract_entities: the call to the service is made outside the try block
extract_entities(query, llm, reply, cache) ==
    LET result == generate_text(llm, reply)
        entities == IF result.value.json = "object" THEN result.value.entities
                    ELSE _pattern_extract_entities(query)
    IN  IF result.raised
          THEN [raised |-> TRUE, type |-> result.type, msg |-> result.msg,
                value |-> EmptyDict, cache |-> cache]
        ELSE _resolve_entities(entities, cache)

\* ------------------------------------------------------ SQLQueryGenerator
_is_close_games_query(user_query) ==
    /\ Has(user_query, "close")
    /\ Has(user_query, "games")
    /\ \E n \in {"Rice", "Jones", "Kiki", "Londynn"} : Has(user_query, n)

\* the template returned by _generate_simple_close_games_query
SimpleCloseGamesQuery ==
    <<"\n">> \o CloseGamesHead \o <<"\n">> \o CloseGamesWhere \o CloseGamesTail \o <<"\n">>

NotTotals == <<"Name", "NOT", "IN", "(", "'Totals'", ",", "'TM'", ",", "'Team'", ")">>

\* the answers of the service to the SQL prompt
SqlText(tokens) == [kind |-> "text", text |-> tokens]
R_Filtered ==
    <<FenceSql, "\n", "SELECT", "Name", ",", "Pts", "FROM", table_name,
      "WHERE", "Name", "=", "'Rice, Kiki'", "AND">> \o NotTotals \o <<"\n", Fence>>
R_FilterOnly ==
    <<"SELECT", "Name", ",", "Pts", "FROM", table_name,
      "WHERE", "Name", "=", "'Rice, Kiki'">>
R_MultiLine ==
    <<"SELECT", "Name", ",", "Pts", "\n", "FROM", table_name, "\n",
      "WHERE", "Name", "=", "'Rice, Kiki'", "\n", "AND">> \o NotTotals
R_Extract ==
    <<"Here", "is", "the", "query", ":", "SELECT", "Name", ",", "TO", "FROM", table_name,
      "WHERE", "EXTRACT", "(", "YEAR", "FROM", "game_date", ")", "=", "'7'", "AND">>
    \o NotTotals
R_NoTable == <<"SELECT", "Name", "FROM", "players">>
R_Empty == <<>>
GenerateReplies ==
    {ServiceError} \cup {SqlText(t) : t \in {R_Filtered, R_FilterOnly, R_MultiLine,
                                             R_Extract, R_NoTable, R_Empty}}

\* variants of the retry test: one that retries whatever the validation said,
\* one that allows one retry more
MayRetryAlways(is_valid, retry_count) == retry_count < MaxRetries
MayRetryOnceMore(is_valid, retry_count) == ~is_valid /\ retry_count <= MaxRetries

\* the retry test of generate_sql_query
MayRetry(is_valid, retry_count) == ~is_valid /\ retry_count < MaxRetries

\* a variant of generate_sql_query without the test for close-games queries
GenerateAlwaysAsking(user_query, llm, reply, retry_count) ==
    LET answer == generate_text(llm, reply)
        extracted == _extract_sql_from_response(answer.value.text)
    IN  IF answer.raised
          THEN [calls |-> 1, retry |-> FALSE, sql |-> None]
        ELSE Once(Once(extracted, LAMBDA v : _ensure_sqlite_compatibility(v)),
                  LAMBDA sql :
                    Once(validate_sql(sql),
                         LAMBDA verdict :
                           [calls |-> 1, sql |-> sql, verdict |-> verdict,
                            retry |-> MayRetry(verdict.valid, retry_count)]))

\* a variant of generate_sql_query that validates and returns the text as
\* the service wrote it
GenerateUnrepaired(user_query, llm, reply, retry_count) ==
    LET answer == generate_text(llm, reply)
        extracted == _extract_sql_from_response(answer.value.text)
    IN  IF _is_close_games_query(user_query)
          THEN [calls |-> 0, retry |-> FALSE, sql |-> SimpleCloseGamesQuery]
        ELSE IF answer.raised
          THEN [calls |-> 1, retry |-> FALSE, sql |-> None]
        ELSE Once(Once(extracted, LAMBDA v : v),
                  LAMBDA sql :
                    Once(validate_sql(sql),
                         LAMBDA verdict :
                           [calls |-> 1, sql |-> sql, verdict |-> verdict,
                            retry |-> MayRetry(verdict.valid, retry_count)]))

\* one pass through the body of generate_sql_query: what it returns, or that
\* it calls itself with retry_count + 1
generate_sql_query(user_query, llm, reply, retry_count) ==
    LET answer == generate_text(llm, reply)
        extracted == _extract_sql_from_response(answer.value.text)
    IN  IF _is_close_games_query(user_query)
          THEN [calls |-> 0, retry |-> FALSE, sql |-> SimpleCloseGamesQuery]
        ELSE IF answer.raised
          THEN [calls |-> 1, retry |-> FALSE, sql |-> None]
        ELSE Once(Once(extracted, LAMBDA v : _ensure_sqlite_compatibility(v)),
                  LAMBDA sql :
                    Once(validate_sql(sql),
                         LAMBDA verdict :
                           [calls |-> 1, sql |-> sql, verdict |-> verdict,
                            retry |-> MayRetry(verdict.valid, retry_count)]))

\* ------------------------------------------------------------ RAGPipeline
\* 'name' as an SQL string literal
Lit(name) ==
    CASE name = "Rice, Kiki" -> "'Rice, Kiki'"
      [] name = "Jones, Londynn" -> "'Jones, Londynn'"
      [] name = "Betts, Lauren" -> "'Betts, Lauren'"

\* "', '".join(names) between the quotes of ('...')
RECURSIVE NameList(_)
NameList(names) ==
    IF Len(names) = 1 THEN <<Lit(names[1])>>
    ELSE <<Lit(names[1]), ",">> \o NameList(Tail(names))

HasPlayers(extracted_entities) == IsSet(Get(extracted_entities, "player_names"))

Aggregation(fn, column, alias, digits, player_filter) ==
    <<"\n", "SELECT", "Name", ",">> \o
    (IF digits = "" THEN <<fn, "(", column, ")">>
     ELSE <<"ROUND", "(", fn, "(", column, ")", ",", digits, ")">>) \o
    <<"as", alias, "\n", "FROM", table_name, "\n", "WHERE">> \o NotTotals \o
    player_filter \o
    <<"\n", "GROUP", "BY", "Name", "\n", "ORDER", "BY", alias, "DESC", "\n",
      "LIMIT", "10", "\n">>

\* fallback (a); "UCLA average" is never part of a lower-cased question
_simplify_aggregation_query(user_query, extracted_entities) ==
    LET player_filter ==
            IF HasPlayers(extracted_entities)
            THEN <<"AND", "Name", "IN", "(">>
                 \o NameList(extracted_entities["player_names"].v) \o <<")">>
            ELSE <<>>
    IN  IF Has(user_query, "average") \/ Has(user_query, "avg")
          THEN IF HasPhrase(user_query, <<"team", "average">>) /\ Has(user_query, "points")
                 THEN <<"\n", "SELECT", "ROUND", "(", "AVG", "(", "Pts", ")", ",", "2", ")",
                        "AS", "team_avg_points", "\n", "FROM", table_name, "\n",
                        "WHERE", "Name", "=", "'Totals'", "\n">>
               ELSE IF Has(user_query, "points")
                 THEN Aggregation("AVG", "Pts", "avg_points", "2", player_filter)
               ELSE IF Has(user_query, "rebounds")
                 THEN Aggregation("AVG", "Reb", "avg_rebounds", "2", player_filter)
               ELSE None
        ELSE IF (Has(user_query, "total") \/ Has(user_query, "sum"))
                /\ Has(user_query, "points")
          THEN Aggregation("SUM", "Pts", "total_points", "", player_filter)
        ELSE None

\* fallback (b)
_convert_to_basic_select(user_query, extracted_entities) ==
    IF HasPlayers(extracted_entities)
      THEN <<"\n", "SELECT", "Name", ",", "Pts", ",", "Reb", ",", "Ast", ",", "\"TO\"", ",",
             "Stl", ",", "Blk", ",", "Opponent", ",", "game_date", "\n",
             "FROM", table_name, "\n", "WHERE", "Name", "IN", "(">>
           \o NameList(extracted_entities["player_names"].v)
           \o <<")", "AND">> \o NotTotals
           \o <<"\n", "ORDER", "BY", "game_date", "DESC", "\n", "LIMIT", "20", "\n">>
    ELSE IF Has(user_query, "best") \/ Has(user_query, "top")
      THEN <<"\n", "SELECT", "Name", ",", "AVG", "(", "Pts", ")", "as", "avg_points", ",",
             "AVG", "(", "Reb", ")", "as", "avg_rebounds", ",",
             "AVG", "(", "Ast", ")", "as", "avg_assists", "\n",
             "FROM", table_name, "\n", "WHERE">> \o NotTotals
           \o <<"\n", "GROUP", "BY", "Name", "\n", "ORDER", "BY", "avg_points", "DESC",
                "\n", "LIMIT", "10", "\n">>
    ELSE None

\* fallback (c)
_create_player_lookup_query(user_query, extracted_entities) ==
    <<"\n", "SELECT", "DISTINCT", "Name", ",", "COUNT", "(", "*", ")", "as",
      "games_played", "\n", "FROM", table_name, "\n", "WHERE">> \o NotTotals
    \o <<"\n", "GROUP", "BY", "Name", "\n", "ORDER", "BY", "games_played", "DESC",
         "\n", "LIMIT", "15", "\n">>

\* a variant of the list with the first two strategies exchanged
ReorderedStrategies ==
    <<"_convert_to_basic_select", "_simplify_aggregation_query",
      "_create_player_lookup_query">>

\* self.fallback_strategies, in the order of the list
fallback_strategies ==
    <<"_simplify_aggregation_query", "_convert_to_basic_select",
      "_create_player_lookup_query">>

\* strategy(user_query, extracted_entities)
StrategySql(strategy, user_query, extracted_entities) ==
    CASE strategy = "_simplify_aggregation_query" ->
           _simplify_aggregation_query(user_query, extracted_entities)
      [] strategy = "_convert_to_basic_select" ->
           _convert_to_basic_select(user_query, extracted_entities)
      [] strategy = "_create_player_lookup_query" ->
           _create_player_lookup_query(user_query, extracted_entities)

\* tokens of the model in which the patterns Name, = and AND occur
NameTokens == {"Name", "\"Name\""}
EqualsTokens == {"=", ">=", "<="}

\* the first position after i holding a token of T, before the line ends;
\* 0 when there is none (i = 0 passes the failure on)
NextOnLine(s, i, T) ==
    IF i = 0 THEN 0
    ELSE Once({j \in (i + 1)..Len(s) :
                  s[j] \in T /\ \A m \in (i + 1)..(j - 1) : s[m] # "\n"},
              LAMBDA C : IF C = {} THEN 0 ELSE CHOOSE j \in C : \A k \in C : j <= k)

\* where the match of WHERE.*?Name.*?=.*?'[^']*'.*?AND starting at i ends
FilterEnd(s, i) ==
    Once(NextOnLine(s, i, NameTokens),
         LAMBDA name :
           Once(NextOnLine(s, name, EqualsTokens),
                LAMBDA equals :
                  Once(NextOnLine(s, equals, StringLiterals),
                       LAMBDA literal : NextOnLine(s, literal, {"AND"}))))

\* re.sub(r"WHERE.*?Name.*?=.*?'[^']*'.*?AND", "WHERE", sql_query)
RECURSIVE StripPlayerFilter(_)
StripPlayerFilter(s) ==
    LET Cut(i, end) == SubSeq(s, 1, i) \o StripPlayerFilter(SubSeq(s, end + 1, Len(s)))
        First(M) == IF M = {} THEN s
                    ELSE Once(CHOOSE i \in M : \A k \in M : i <= k,
                              LAMBDA i : Once(FilterEnd(s, i), LAMBDA end : Cut(i, end)))
    IN  Once({i \in 1..Len(s) : s[i] = "WHERE" /\ FilterEnd(s, i) # 0}, First)

\* the rows of a result: n rows
AllRows == <<"row1", "row2", "row3", "row4", "row5", "row6", "row7", "row8">>
Rows(n) == SubSeq(AllRows, 1, n)

\* what execute_query(sql, return_error=True) hands back to the pipeline:
\* (rows, None), (None, error), or an exception of the injected connector
ExecOutcomes ==
    {[kind |-> "rows", rows |-> Rows(n), error |-> None] : n \in 0..MaxRows}
    \cup {[kind |-> "error", rows |-> None, error |-> <<"SQLite error: no such column">>],
          [kind |-> "raise", rows |-> None, error |-> <<"connector failed">>]}

\* the answers of the service to the response prompt
SynthesisReplies == {ServiceError, [kind |-> "text", text |-> <<"Here is the answer.">>]}

_create_basic_response(query_results) ==
    IF query_results = <<>> THEN <<"No data found.">>
    ELSE IF Len(query_results) = 1
      THEN <<"I found one result: ">> \o SubSeq(query_results, 1, 1)
    ELSE <<"I found ", ToString(Len(query_results)), " results. Here are the first few: ">>
         \o SubSeq(query_results, 1, Min(3, Len(query_results)))

\* a variant without the data presentation of the except clause
GenerateResponseNoSummary(query_results, llm, reply) ==
    IF query_results = <<>> \/ generate_text(llm, reply).raised
      THEN <<"I couldn't find any data matching your request.">>
    ELSE generate_text(llm, reply).value.text

_generate_response(query_results, llm, reply) ==
    IF query_results = <<>> THEN <<"I couldn't find any data matching your request.">>
    ELSE IF generate_text(llm, reply).raised THEN _create_basic_response(query_results)
    ELSE generate_text(llm, reply).value.text

\* the result records; a field a record does not carry is not in its domain
_create_error_response(user_query, error, user_message) ==
    [user_query |-> user_query, error |-> error, sql_query |-> None,
     query_results |-> None, response |-> user_message, success |-> FALSE]

_create_empty_response(user_query, sql_query) ==
    [user_query |-> user_query, sql_query |-> sql_query, query_results |-> <<>>,
     response |-> <<"I couldn't find any data matching your criteria. Please try rephrasing your question or asking about different players or statistics.">>,
     success |-> FALSE, empty_results |-> TRUE]

SuccessResponse(user_query, extracted_entities, sql_query, query_results, response) ==
    [user_query |-> user_query, extracted_entities |-> extracted_entities,
     sql_query |-> sql_query, query_results |-> query_results,
     response |-> response, success |-> TRUE]

FallbackNote == "(Note: This answer uses a simplified query due to the complexity of your original request.)"

FallbackResponse(user_query, extracted_entities, sql_query, query_results, response, original_error) ==
    [user_query |-> user_query, extracted_entities |-> extracted_entities,
     sql_query |-> sql_query, query_results |-> query_results,
     response |-> response \o <<FallbackNote>>, success |-> TRUE,
     fallback_used |-> TRUE, original_error |-> original_error]

ApproximationNote == "I couldn't find specific data for that player. Here's what I found instead:"

RepairedResponse(user_query, sql_query, query_results, response) ==
    [user_query |-> user_query, sql_query |-> sql_query,
     query_results |-> query_results, response |-> <<ApproximationNote>> \o response,
     success |-> TRUE, fallback_used |-> TRUE]

NoSqlMessage == <<"The system could not create a valid SQL query for your request.">>
InvalidSqlMessage == <<"The system generated an incompatible query. Please try rephrasing your question.">>
ExecutionMessage == <<"There was an error running your query. Please try a simpler version of your question.">>
UnexpectedMessage == <<"I encountered an unexpected error while processing your request. Please try again or rephrase your question.">>

\* a variant of the except clause that lets the exception through
Reraise(user_query, exc) == [raised |-> TRUE, result |-> <<>>]

\* the except clause of process_query: the exception becomes a record
ProcessQueryExcept(user_query, exc) ==
    [raised |-> FALSE,
     result |-> _create_error_response(user_query, exc.msg, UnexpectedMessage)]

\* a variant of the test that takes only None for a missing query
SqlIsNone(sql_query) == sql_query = None

\* the test on the generator's result: not sql_query
SqlMissing(sql_query) == ~Truthy(sql_query)

\* ------------------------------------------------- the calls of a request
\* one call made while a request is processed: the operation, its argument
\* (an SQL text, or the name of the caller or strategy) and its outcome
Event(op, arg, out) == [op |-> op, arg |-> arg, out |-> out]

TextCall(site, llm, reply) ==
    Event("generate_text", <<site>>,
          IF generate_text(llm, reply).raised THEN "raise" ELSE "text")
ValidateCall(sql, verdict) ==
    Event("validate_sql", sql, IF verdict.valid THEN "valid" ELSE "invalid")
ExecuteCall(sql, outcome) ==
    Event("execute_query", sql,
          IF outcome.kind = "rows" /\ outcome.rows = <<>> THEN "empty" ELSE outcome.kind)

\* step 1 of process_query: extract_entities, under the try of process_query
ExtractStep(user_query, llm, reply, cache) ==
    LET Step(r) ==
        [events |-> <<TextCall("extract_entities", llm, reply),
                      Event("extract_entities", <<>>,
                            IF r.raised THEN "raise" ELSE "return")>>,
         done |-> r.raised,
         cache |-> r.cache,
         entities |-> r.value,
         raised |-> r.raised /\ ProcessQueryExcept(user_query, r).raised,
         result |-> IF r.raised THEN ProcessQueryExcept(user_query, r).result
                    ELSE <<>>]
    IN  Once(extract_entities(user_query, llm, reply, cache), Step)

\* one pass through generate_sql_query, with the calls it makes
GenerateStep(user_query, llm, reply, retry_count) ==
    LET G(g) ==
        [events |-> (IF g.calls = 1
                       THEN <<TextCall("generate_sql_query", llm, reply)>> ELSE <<>>)
                    \o (IF g.calls = 1 /\ g.sql # None
                          THEN <<ValidateCall(g.sql, g.verdict)>> ELSE <<>>),
         retry |-> g.retry, sql |-> g.sql]
    IN  Once(generate_sql_query(user_query, llm, reply, retry_count), G)

\* steps 2 and 3 of process_query after the generator returned: the test for
\* a missing query and the validation of the primary query
CheckStep(user_query, sql_query) ==
    LET Step(verdict) ==
        IF SqlMissing(sql_query)
          THEN [events |-> <<>>, next |-> "done", original_error |-> <<>>,
                result |-> _create_error_response(user_query,
                               <<"Failed to generate SQL query">>, NoSqlMessage)]
        ELSE IF ~verdict.valid
          THEN [events |-> <<ValidateCall(sql_query, verdict)>>, next |-> "fallback",
                original_error |-> <<verdict.reason>>, result |-> <<>>]
        ELSE [events |-> <<ValidateCall(sql_query, verdict)>>, next |-> "execute",
              original_error |-> <<>>, result |-> <<>>]
    IN  Once(validate_sql(sql_query), Step)

\* a variant of step 4 that enters the ladder also when rows were returned
ExecuteThenLadder(user_query, sql_query, outcome) ==
    LET Step(exc) ==
        [events |-> <<ExecuteCall(sql_query, outcome)>>,
         next |-> CASE outcome.kind = "raise" -> "done"
                    [] outcome.kind = "error" -> "fallback"
                    [] outcome.kind = "rows" /\ outcome.rows = <<>> -> "empty"
                    [] OTHER -> "fallback",
         original_error |-> IF outcome.kind = "error" THEN outcome.error ELSE <<>>,
         raised |-> outcome.kind = "raise" /\ exc.raised,
         result |-> IF outcome.kind = "raise" THEN exc.result ELSE <<>>]
    IN  Once(ProcessQueryExcept(user_query, Raise("Exception", outcome.error)), Step)

\* step 4 of process_query: the execution of the primary query
ExecuteStep(user_query, sql_query, outcome) ==
    LET Step(exc) ==
        [events |-> <<ExecuteCall(sql_query, outcome)>>,
         next |-> CASE outcome.kind = "raise" -> "done"
                    [] outcome.kind = "error" -> "fallback"
                    [] outcome.kind = "rows" /\ outcome.rows = <<>> -> "empty"
                    [] OTHER -> "respond",
         original_error |-> IF outcome.kind = "error" THEN outcome.error ELSE <<>>,
         raised |-> outcome.kind = "raise" /\ exc.raised,
         result |-> IF outcome.kind = "raise" THEN exc.result ELSE <<>>]
    IN  Once(ProcessQueryExcept(user_query, Raise("Exception", outcome.error)), Step)

\* a variant of the loop body that executes the candidate without validating it
TryUnvalidated(strategy, user_query, extracted_entities, original_error, outcome, llm, reply) ==
    LET tried == <<Event("strategy", <<strategy>>, "tried")>>
        Step(fallback_sql) ==
        IF ~Truthy(fallback_sql)
          THEN [events |-> tried, accepted |-> FALSE, result |-> <<>>]
        ELSE IF outcome.kind # "rows" \/ outcome.rows = <<>>
          THEN [events |-> tried \o <<ExecuteCall(fallback_sql, outcome)>>,
                accepted |-> FALSE, result |-> <<>>]
        ELSE [events |-> tried \o <<ExecuteCall(fallback_sql, outcome),
                                    TextCall("_generate_response", llm, reply)>>,
              accepted |-> TRUE,
              result |-> FallbackResponse(user_query, extracted_entities, fallback_sql,
                             outcome.rows,
                             _generate_response(outcome.rows, llm, reply),
                             original_error)]
    IN  Once(StrategySql(strategy, user_query, extracted_entities), Step)

\* the body of the loop of _try_fallback_strategies for one strategy: the
\* calls it makes and, when the candidate is accepted, the record returned
TryStrategy(strategy, user_query, extracted_entities, original_error, outcome, llm, reply) ==
    LET tried == <<Event("strategy", <<strategy>>, "tried")>>
        Step(fallback_sql, verdict) ==
        IF ~Truthy(fallback_sql)
          THEN [events |-> tried, accepted |-> FALSE, result |-> <<>>]
        ELSE IF ~verdict.valid
          THEN [events |-> tried \o <<ValidateCall(fallback_sql, verdict)>>,
                accepted |-> FALSE, result |-> <<>>]
        ELSE IF outcome.kind # "rows" \/ outcome.rows = <<>>
          THEN [events |-> tried \o <<ValidateCall(fallback_sql, verdict),
                                      ExecuteCall(fallback_sql, outcome)>>,
                accepted |-> FALSE, result |-> <<>>]
        ELSE [events |-> tried \o <<ValidateCall(fallback_sql, verdict),
                                    ExecuteCall(fallback_sql, outcome),
                                    TextCall("_generate_response", llm, reply)>>,
              accepted |-> TRUE,
              result |-> FallbackResponse(user_query, extracted_entities, fallback_sql,
                             outcome.rows,
                             _generate_response(outcome.rows, llm, reply),
                             original_error)]
    IN  Once(StrategySql(strategy, user_query, extracted_entities),
             LAMBDA fallback_sql : Once(validate_sql(fallback_sql),
                                        LAMBDA verdict : Step(fallback_sql, verdict)))

\* a variant of the final error that shows the reason to the user
LadderFailedVerbose(user_query, failure, original_error) ==
    _create_error_response(user_query,
        (IF failure = "validation" THEN <<"SQL validation failed: ">>
         ELSE <<"SQL execution failed: ">>) \o original_error,
        ExecutionMessage \o original_error)

\* a variant of the final error that reports the ladder, not the primary reason
LadderFailedGeneric(user_query, failure, original_error) ==
    _create_error_response(user_query, <<"All fallback strategies failed">>,
                           ExecutionMessage)

\* the return after _try_fallback_strategies found nothing: the reason of the
\* primary failure is reported
LadderFailed(user_query, failure, original_error) ==
    IF failure = "validation"
      THEN _create_error_response(user_query,
               <<"SQL validation failed: ">> \o original_error, InvalidSqlMessage)
    ELSE _create_error_response(user_query,
             <<"SQL execution failed: ">> \o original_error, ExecutionMessage)

\* a variant of step 5 whose record names the query that returned no rows
EmptyStepFirstQuery(user_query, extracted_entities, sql_query, outcome, llm, reply) ==
    LET found == outcome.kind = "rows" /\ outcome.rows # <<>>
        shown == SubSeq(outcome.rows, 1, Min(5, Len(outcome.rows)))
        Step(modified_query, exc) ==
        IF ~HasPlayers(extracted_entities) \/ modified_query = sql_query
          THEN [events |-> <<>>, raised |-> FALSE,
                result |-> _create_empty_response(user_query, sql_query)]
        ELSE IF outcome.kind = "raise"
          THEN [events |-> <<ExecuteCall(modified_query, outcome)>>,
                raised |-> exc.raised, result |-> exc.result]
        ELSE IF ~found
          THEN [events |-> <<ExecuteCall(modified_query, outcome)>>, raised |-> FALSE,
                result |-> _create_empty_response(user_query, sql_query)]
        ELSE [events |-> <<ExecuteCall(modified_query, outcome),
                           TextCall("_generate_response", llm, reply)>>,
              raised |-> FALSE,
              result |-> RepairedResponse(user_query, sql_query, shown,
                             _generate_response(shown, llm, reply))]
    IN  Once(StripPlayerFilter(sql_query),
             LAMBDA modified_query :
               Once(ProcessQueryExcept(user_query, Raise("Exception", outcome.error)),
                    LAMBDA exc : Step(modified_query, exc)))

\* step 5 of process_query: _handle_empty_results, then the empty response
EmptyStep(user_query, extracted_entities, sql_query, outcome, llm, reply) ==
    LET found == outcome.kind = "rows" /\ outcome.rows # <<>>
        shown == SubSeq(outcome.rows, 1, Min(5, Len(outcome.rows)))
        Step(modified_query, exc) ==
        IF ~HasPlayers(extracted_entities) \/ modified_query = sql_query
          THEN [events |-> <<>>, raised |-> FALSE,
                result |-> _create_empty_response(user_query, sql_query)]
        ELSE IF outcome.kind = "raise"
          THEN [events |-> <<ExecuteCall(modified_query, outcome)>>,
                raised |-> exc.raised, result |-> exc.result]
        ELSE IF ~found
          THEN [events |-> <<ExecuteCall(modified_query, outcome)>>, raised |-> FALSE,
                result |-> _create_empty_response(user_query, sql_query)]
        ELSE [events |-> <<ExecuteCall(modified_query, outcome),
                           TextCall("_generate_response", llm, reply)>>,
              raised |-> FALSE,
              result |-> RepairedResponse(user_query, modified_query, shown,
                             _generate_response(shown, llm, reply))]
    IN  Once(StripPlayerFilter(sql_query),
             LAMBDA modified_query :
               Once(ProcessQueryExcept(user_query, Raise("Exception", outcome.error)),
                    LAMBDA exc : Step(modified_query, exc)))

\* step 6 of process_query: the response to a query that returned rows
RespondStep(user_query, extracted_entities, sql_query, query_results, llm, reply) ==
    [events |-> <<TextCall("_generate_response", llm, reply)>>,
     result |-> SuccessResponse(user_query, extracted_entities, sql_query,
                    query_results, _generate_response(query_results, llm, reply))]

\* ------------------------------------------------------------------ app.py
\* what process_with_rag_pipeline makes of the record of process_query
process_with_rag_pipeline(result) ==
    IF "success" \in DOMAIN result /\ result.success
      THEN [response |-> result.response, success |-> TRUE]
    ELSE [response |-> result.response, success |-> FALSE,
          error_type |-> IF "error_type" \in DOMAIN result THEN result.error_type
                         ELSE "unknown_error"]

\* ------------------------------------------- texts under validation
\* the fragments the SQL texts handed to the validator are made of
SqlFragments ==
    { <<"SELECT", "Name">>,
      <<"FROM", table_name>>,
      <<"GROUP", "BY", "AVG", "(", "Pts", ")">>,
      <<"WHERE", "WITH", "t", "AS", "(">>,
      <<"ilike">>,
      <<"EXTRACT">>,
      <<"TO">>,
      <<"WHERE", ")">>,
      <<"::">>,
      <<")">> }

\* the texts made of at most n fragments
RECURSIVE SqlTexts(_)
SqlTexts(n) ==
    IF n = 0 THEN {<<>>}
    ELSE {<<>>} \cup {f \o t : f \in SqlFragments, t \in SqlTexts(n - 1)}

SqlInputs == SqlTexts(MaxFragments)

\* what is known of one text after a call of validate_sql: the verdict, how
\* often the text was validated, and whether it came out of the repair
Validated(verdict, times, repaired) ==
    [verdict |-> verdict, times |-> times, repaired |-> repaired]

\* a variant of the call whose verdict depends on the calls made before
ValidateStateful(sql, repaired, verdicts) ==
    With(verdicts, sql,
         Validated(IF sql \in DOMAIN verdicts
                     THEN Verdict(FALSE, "Empty SQL query") ELSE validate_sql(sql),
                   IF sql \in DOMAIN verdicts THEN verdicts[sql].times + 1 ELSE 1,
                   repaired))

\* one call of validate_sql(sql): the verdict is recorded for the text
ValidateStep(sql, repaired, verdicts) ==
    With(verdicts, sql,
         Validated(validate_sql(sql),
                   IF sql \in DOMAIN verdicts THEN verdicts[sql].times + 1 ELSE 1,
                   repaired))

\* ------------------------------------------------------ DatabaseConnector
\* the statements handed to execute_query in the model
DQ_Select == <<"SELECT", "Name", "FROM", table_name>>
DQ_Delete == <<"DELETE", "FROM", table_name>>
DQ_DeleteWhere ==
    <<"DELETE", "FROM", table_name, "WHERE", "Name", "IN", "(">> \o DQ_Select \o <<")">>
DQ_StackedDrop == DQ_Select \o <<";", "DROP", "TABLE", table_name>>
DQ_StackedSelect == DQ_Select \o <<";">> \o DQ_Select
DQ_BlockComment == <<"SELECT", "Name", "/*", "x", "*/", "FROM", table_name>>
DQ_LineComment == DQ_Select \o <<"--", "x">>
DQ_Union == DQ_Select \o <<"UNION", "SELECT", "name", "FROM", "sqlite_master">>
DQ_UnionComment == DQ_Union \o <<"--">>
DbQueries == {DQ_Select, DQ_Delete, DQ_DeleteWhere, DQ_StackedDrop, DQ_StackedSelect,
              DQ_BlockComment, DQ_LineComment, DQ_Union, DQ_UnionComment, <<>>}

\* the keywords of the first dangerous pattern
StackedKeywords == {"DROP", "DELETE", "UPDATE", "INSERT", "CREATE", "ALTER"}

\* re.search of the n-th dangerous pattern:
\*   ;\s*(DROP|DELETE|UPDATE|INSERT|CREATE|ALTER)\s+ , UNION\s+SELECT.*-- , \/\*.*\*\/
DangerousHit(query, n) ==
    CASE n = 1 -> \E i \in 1..Len(query) :
                     /\ query[i] = ";"
                     /\ \E j \in (i + 1)..(Len(query) - 1) :
                            /\ query[j] \in StackedKeywords
                            /\ \A m \in (i + 1)..(j - 1) : query[m] = "\n"
      [] n = 2 -> \E i \in 1..Len(query) :
                     /\ query[i] = "UNION"
                     /\ NextTok(query, i) = "SELECT"
                     /\ NextOnLine(query, i, {"--"}) # 0
      [] n = 3 -> \E i \in 1..Len(query) :
                     query[i] = "/*" /\ NextOnLine(query, i, {"*/"}) # 0

\* what EXPLAIN <query> can do on this cursor: without a cursor the call
\* raises AttributeError; sqlite3 refuses a text of more than one statement
\* (an sqlite3.Error or, before Python 3.12, an sqlite3.Warning); it compiles
\* any other statement or reports an error of the statement
ExplainOutcomes(query, cursor_open) ==
    IF ~cursor_open THEN {"exception"}
    ELSE IF \E i \in 1..Len(query) : query[i] = ";" /\ NextTok(query, i) # ""
      THEN {"sqlite_error", "exception"}
    ELSE {"ok", "sqlite_error"}

\* _validate_query_syntax: the error text, None when the query passes
_validate_query_syntax(query, explain) ==
    IF query = <<>> \/ \A i \in 1..Len(query) : query[i] = "\n"
      THEN <<"Empty query">>
    ELSE IF \E n \in 1..3 : DangerousHit(query, n)
      THEN <<"Potentially dangerous SQL pattern detected">>
    ELSE IF ~Has(query, "SELECT")
      THEN <<"Query must contain SELECT statement">>
    ELSE CASE explain = "ok" -> None
           [] explain = "sqlite_error" -> <<"SQLite syntax error: ", "near">>
           [] explain = "exception" -> <<"Syntax validation error: ", "exception">>

\* a time or a mean of times, as an exact fraction in lowest terms (the
\* rounding of the floating-point division is left out)
RECURSIVE Gcd(_, _)
Gcd(a, b) == IF b = 0 THEN a ELSE Gcd(b, a % b)
Fraction(num, den) ==
    IF num = 0 THEN [num |-> 0, den |-> 1]
    ELSE [num |-> num \div Gcd(num, den), den |-> den \div Gcd(num, den)]

\* self.query_stats after __init__
NoQueries == [total_queries |-> 0, failed_queries |-> 0,
              avg_execution_time |-> Fraction(0, 1)]

\* the wall-clock times of the model, in ticks
ExecutionTimes == {1, 4}

\* a variant of the mean that weighs the old mean with n, not n - 1
UpdateWeighingAll(query_stats, execution_time) ==
    LET total == query_stats.total_queries
        current_avg == query_stats.avg_execution_time
    IN  [query_stats EXCEPT !.avg_execution_time =
            Fraction(current_avg.num * total + execution_time * current_avg.den,
                     current_avg.den * total)]

\* _update_query_stats: ((current_avg * (total - 1)) + execution_time) / total
_update_query_stats(query_stats, execution_time) ==
    LET total == query_stats.total_queries
        current_avg == query_stats.avg_execution_time
    IN  [query_stats EXCEPT !.avg_execution_time =
            Fraction(current_avg.num * (total - 1) + execution_time * current_avg.den,
                     current_avg.den * total)]

\* what cursor.execute and fetchall do and the time the call takes; the time
\* of a call that fails is not used
RunOutcomes ==
    {[kind |-> "rows", rows |-> Rows(n), time |-> t] : n \in 0..1, t \in ExecutionTimes}
    \cup {[kind |-> "sqlite_error", rows |-> <<>>, time |-> 1],
          [kind |-> "exception", rows |-> <<>>, time |-> 1]}

\* what the database does in one call of execute_query: whether connect(),
\* called when there is no connection, opens one, what EXPLAIN does, and what
\* the execution does
DbEnvironments(query, conn) ==
    UNION {{[connect |-> c, explain |-> x, run |-> r] :
               x \in ExplainOutcomes(query, conn = "open" \/ c = "ok"),
               r \in RunOutcomes} :
           c \in IF conn = "open" THEN {"ok"} ELSE {"ok", "fail"}}

\* what execute_query hands back: (rows, error) with return_error, else rows
Returned(return_error, rows, error) ==
    IF return_error THEN [rows |-> rows, error |-> error] ELSE [rows |-> rows]

\* the end of a failed call: failed_queries is counted and None is returned
Failed(query_stats, conn, return_error, error, executed) ==
    [conn |-> conn,
     query_stats |-> [query_stats EXCEPT !.failed_queries = @ + 1],
     executed |-> executed, raised |-> FALSE,
     value |-> Returned(return_error, None, error)]

\* a variant of the call that does not count a query the pre-check rejected
ExecuteUncounted(query, return_error, validate_first, env, conn, query_stats) ==
    LET now_open == conn = "open" \/ env.connect = "ok"
        now == IF now_open THEN "open" ELSE "closed"
        counted == [query_stats EXCEPT !.total_queries = @ + 1]
    IN  [conn |-> now, query_stats |-> counted, executed |-> FALSE, raised |-> FALSE,
         value |-> Returned(return_error, None, <<"Validation error: ">>)]

\* a variant of the call that counts a query only when there is a connection
ExecuteCountingConnected(query, return_error, validate_first, env, conn, query_stats) ==
    LET now_open == conn = "open" \/ env.connect = "ok"
        now == IF now_open THEN "open" ELSE "closed"
        counted == IF now_open THEN [query_stats EXCEPT !.total_queries = @ + 1]
                   ELSE query_stats
        validation_error == _validate_query_syntax(query, env.explain)
    IN  IF validate_first /\ validation_error # None
          THEN Failed(counted, now, return_error,
                      <<"Validation error: ">> \o validation_error, FALSE)
        ELSE IF ~now_open
          THEN Failed(counted, now, return_error,
                      <<"Unexpected error: ", "'NoneType' object has no attribute 'execute'">>,
                      FALSE)
        ELSE IF env.run.kind = "sqlite_error"
          THEN Failed(counted, now, return_error, <<"SQLite error: ", "near">>, TRUE)
        ELSE IF env.run.kind = "exception"
          THEN Failed(counted, now, return_error, <<"Unexpected error: ", "exception">>,
                      TRUE)
        ELSE [conn |-> now,
              query_stats |-> _update_query_stats(counted, env.run.time),
              executed |-> TRUE, raised |-> FALSE,
              value |-> Returned(return_error, env.run.rows, None)]

\* execute_query(query, return_error, validate_first): the connector after
\* the call, whether the statement was run, and what is returned
execute_query(query, return_error, validate_first, env, conn, query_stats) ==
    LET now_open == conn = "open" \/ env.connect = "ok"
        now == IF now_open THEN "open" ELSE "closed"
        counted == [query_stats EXCEPT !.total_queries = @ + 1]
        validation_error == _validate_query_syntax(query, env.explain)
    IN  IF validate_first /\ validation_error # None
          THEN Failed(counted, now, return_error,
                      <<"Validation error: ">> \o validation_error, FALSE)
        ELSE IF ~now_open
          THEN Failed(counted, now, return_error,
                      <<"Unexpected error: ", "'NoneType' object has no attribute 'execute'">>,
                      FALSE)
        ELSE IF env.run.kind = "sqlite_error"
          THEN Failed(counted, now, return_error, <<"SQLite error: ", "near">>, TRUE)
        ELSE IF env.run.kind = "exception"
          THEN Failed(counted, now, return_error, <<"Unexpected error: ", "exception">>,
                      TRUE)
        ELSE [conn |-> now,
              query_stats |-> _update_query_stats(counted, env.run.time),
              executed |-> TRUE, raised |-> FALSE,
              value |-> Returned(return_error, env.run.rows, None)]

\* ------------------------------------------- the introspection operations
IntrospectionOps ==
    {"get_table_schema", "get_distinct_values", "get_table_names", "get_row_count"}

\* what an operation is asked about: a table and column that exist, a table
\* that does not, a column that does not
IntroTargets(op) ==
    CASE op = "get_table_schema" -> {"present", "missing_table"}
      [] op = "get_distinct_values" -> {"present", "missing_table", "missing_column"}
      [] op = "get_table_names" -> {"present"}
      [] op = "get_row_count" -> {"present", "missing_table"}

\* the query an operation builds
IntroQuery(op) ==
    CASE op = "get_table_schema" -> <<"PRAGMA", "table_info", "(", table_name, ")">>
      [] op = "get_distinct_values" ->
           <<"SELECT", "DISTINCT", "\"Name\"", "FROM", table_name, "WHERE", "\"Name\"",
             "IS", "NOT", "NULL", "LIMIT", "1000">>
      [] op = "get_table_names" ->
           <<"SELECT", "name", "FROM", "sqlite_master", "WHERE", "type", "=", "'table'">>
      [] op = "get_row_count" -> <<"SELECT", "COUNT", "(", "*", ")", "FROM", table_name>>

Ran(rows) == [kind |-> "rows", rows |-> rows, time |-> 1]
RunFailed == [kind |-> "sqlite_error", rows |-> <<>>, time |-> 1]

\* what sqlite3 does with the query of an operation. PRAGMA table_info of a
\* table that does not exist yields no rows; a SELECT from it is an error; a
\* double-quoted name that is no column is an error in a build without
\* double-quoted string literals and the string itself in a build with them;
\* COUNT(*) yields one row that holds the count
IntroRuns(op, target) ==
    CASE target = "missing_table" /\ op = "get_table_schema" -> {Ran(<<>>)}
      [] target = "missing_table" -> {RunFailed}
      [] target = "missing_column" -> {RunFailed, Ran(<<"Nope">>)}
      [] op = "get_table_schema" -> {Ran(Rows(1)), RunFailed}
      [] op = "get_row_count" -> {Ran(<<"0">>), Ran(<<"2">>), RunFailed}
      [] OTHER -> {Ran(Rows(0)), Ran(Rows(1)), RunFailed}

\* what an operation makes of the result of execute_query
IntroValue(op, result) ==
    CASE op = "get_table_schema" ->
           IF result # None /\ result # <<>> THEN List(result) ELSE NoValue
      [] op = "get_row_count" ->
           IF result # None /\ result # <<>> THEN Number(result[1]) ELSE Number("0")
      [] OTHER -> IF result # None /\ result # <<>> THEN List(result) ELSE List(<<>>)

\* a variant of an operation that connects whether or not a connection is open
IntrospectReconnecting(op, first, env, conn, query_stats) ==
    LET step == execute_query(IntroQuery(op), FALSE, FALSE, env,
                              IF first = "ok" THEN "open" ELSE conn, query_stats)
    IN  [call |-> step, connects |-> 1, opened |-> IF first = "ok" THEN 1 ELSE 0,
         raised |-> FALSE, value |-> IntroValue(op, step.value.rows)]

\* one of the four operations: connect() when there is no connection, then
\* execute_query(query, validate_first=False), which connects again when
\* there is still none; first and env.connect say whether connect() succeeds
Introspect(op, first, env, conn, query_stats) ==
    LET after_first == IF conn = "open" \/ first = "ok" THEN "open" ELSE "closed"
        step == execute_query(IntroQuery(op), FALSE, FALSE, env, after_first, query_stats)
    IN  [call |-> step,
         connects |-> (IF conn = "closed" THEN 1 ELSE 0)
                      + (IF after_first = "closed" THEN 1 ELSE 0),
         opened |-> IF conn = "closed" /\ step.conn = "open" THEN 1 ELSE 0,
         raised |-> FALSE,
         value |-> IntroValue(op, step.value.rows)]

\* ------------------------------------------- the extractor on its own
\* option lists of more than five values: the distinct values of two columns
\* that begin with the same five values
Teams == <<"USC", "Stanford", "Oregon", "Utah", "Iowa">>
TeamsAndPlayers == Teams \o <<"Rice, Kiki">>
OptionLists == {players, Teams, TeamsAndPlayers}
RawTexts == {"Kiki Rice", "USC"}

\* the dicts handed to _resolve_entities: what json.loads made of the answers
\* of the service, and what _pattern_extract_entities made of the questions
EntityInputs ==
    {r.entities : r \in {x \in ExtractReplies \ {ServiceError} : x.json = "object"}}
    \cup {_pattern_extract_entities(q) : q \in UserQueries}
    \cup {With(EmptyDict, "player_names", List(<<"Unknown Person", "Kiki Rice">>)),
          With(With(EmptyDict, "opponent", Text("Unknown Person")),
               "player_number", Text("51")),
          With(With(EmptyDict, "statistic", Text("pointz")), "value", Text("1; --"))}

\* one call of _fuzzy_match(raw, options) and what it returned
Matched(raw, options, match) == [raw |-> raw, options |-> options, match |-> match]

\* ------------------------------------- the instances of concurrent requests
\* the two requests handled at the same time
RequestIds == {1, 2}

\* an instance of a class: its references to other instances (0 for none)
\* and the state the class keeps
Object(class, db, llm_manager) ==
    [class |-> class, db |-> db, llm |-> llm_manager, entity_extractor |-> 0,
     query_generator |-> 0, conn |-> "closed", query_stats |-> NoQueries,
     entity_cache |-> EmptyDict]

\* a variant of the construction that hands out the instance of the class
\* that exists already
ConstructShared(objs, obj) ==
    IF \E i \in DOMAIN objs : objs[i].class = obj.class
      THEN [objects |-> objs,
            id |-> CHOOSE i \in DOMAIN objs : objs[i].class = obj.class]
    ELSE [objects |-> Append(objs, obj), id |-> Len(objs) + 1]

\* the call of a class: a new instance, known by its position
Construct(objs, obj) == [objects |-> Append(objs, obj), id |-> Len(objs) + 1]

\* the local variables of process_with_rag_pipeline before its first line
NoLocals == [pc |-> "start", db_connector |-> 0, llm_manager |-> 0, rag_pipeline |-> 0]

\* what the database does for the queries of the constructors and of
\* process_query in the model of the requests
RequestEnvironments ==
    {[connect |-> c, explain |-> "ok", run |-> r] :
        c \in {"ok", "fail"},
        r \in {[kind |-> "rows", rows |-> Rows(1), time |-> 1],
               [kind |-> "sqlite_error", rows |-> <<>>, time |-> 1]}}

\* n calls of execute_query(query, validate_first=False) on one connector
RECURSIVE Queries(_, _, _)
Queries(connector, env, n) ==
    IF n = 0 THEN connector
    ELSE Once(execute_query(DQ_Select, FALSE, FALSE, env, connector.conn,
                            connector.query_stats),
              LAMBDA step : Queries([connector EXCEPT !.conn = step.conn,
                                                      !.query_stats = step.query_stats],
                                    env, n - 1))

\* ------------------------------------------------------------------ state
VARIABLES
    llm,                 \* the state LLMManager.__init__ left the manager in
    entity_cache,        \* EntityExtractor.entity_cache
    pc,                  \* where process_query stands
    user_query,          \* the argument of the running process_query
    extracted_entities,  \* its local variables
    retry_count,
    sql_query,
    query_results,
    failure,             \* which step sent it to the fallback ladder
    original_error,      \* the reason handed to _try_fallback_strategies
    strategy_index,      \* the position of the ladder's loop, from 1
    result,              \* the record returned to the caller
    raised,              \* an exception reached the caller
    calls,               \* the calls made for the running request, in order
    sql_input,           \* the text a caller of the validator starts from
    sql_text,            \* the text it holds now: sql_input, or its repair
    repaired,            \* sql_text came out of _ensure_sqlite_compatibility
    verdicts,            \* what validate_sql returned, for each text validated
    conn,                \* DatabaseConnector.conn: "closed" (None) or "open"
    query_stats,         \* DatabaseConnector.query_stats
    db_call,             \* the last call of execute_query and what it did
    opened,              \* how many connections the last call opened
    intro,               \* the introspection operation that made the last call
    run_times,           \* the times of the successful calls of execute_query
    matches,             \* the calls of _fuzzy_match on one extractor, in order
    intent,              \* the last call of _resolve_entities and its record
    session,             \* the Flask session of one client
    http,                \* the last request of the client and its response
    objects,             \* the component instances constructed so far
    requests             \* the requests being handled, each with its instances

Locals == <<extracted_entities, retry_count, sql_query, query_results, failure,
            original_error, strategy_index>>

PipelineVars == <<llm, entity_cache, pc, user_query, Locals, result, raised, calls>>
ValidatorVars == <<sql_input, sql_text, repaired, verdicts>>
ConnectorVars == <<conn, query_stats, db_call, opened, intro, run_times>>
ExtractorVars == <<matches, intent>>
SessionVars == <<session, http>>
RequestVars == <<objects, requests>>

vars == <<PipelineVars, ValidatorVars, ConnectorVars, ExtractorVars, SessionVars,
          RequestVars>>

\* what a step of one component leaves alone
OutsidePipeline == <<ValidatorVars, ConnectorVars, ExtractorVars, SessionVars, RequestVars>>
OutsideValidator == <<PipelineVars, ConnectorVars, ExtractorVars, SessionVars, RequestVars>>
OutsideConnector == <<PipelineVars, ValidatorVars, ExtractorVars, SessionVars, RequestVars>>

\* no request is running
PipelineIdle ==
    /\ entity_cache = EmptyDict
    /\ pc = "idle"
    /\ user_query = <<>>
    /\ extracted_entities = EmptyDict
    /\ retry_count = 0
    /\ sql_query = None
    /\ query_results = <<>>
    /\ failure = "none"
    /\ original_error = <<>>
    /\ strategy_index = 0
    /\ result = <<>>
    /\ raised = FALSE
    /\ calls = <<>>

\* no text is under validation
ValidatorIdle ==
    /\ sql_input = <<>>
    /\ sql_text = <<>>
    /\ repaired = FALSE
    /\ verdicts = EmptyDict

\* the call record before the first call
NoCall == [query |-> <<>>, validate_first |-> FALSE, return_error |-> FALSE,
           executed |-> FALSE, raised |-> FALSE, elapsed |-> 0,
           value |-> [rows |-> None]]

\* DatabaseConnector.__init__
\* the introspection record before the first call
NoIntro == [op |-> "none", target |-> "present", connects |-> 0, raised |-> FALSE,
            value |-> NoValue]

ConnectorNew ==
    /\ conn = "closed"
    /\ query_stats = NoQueries
    /\ db_call = NoCall
    /\ opened = 0
    /\ intro = NoIntro
    /\ run_times = <<>>

\* the resolution record before the first call of _resolve_entities
NoIntent == [entities |-> EmptyDict, raised |-> FALSE, resolved |-> EmptyDict]

\* EntityExtractor.__init__: nothing has been matched
ExtractorIdle ==
    /\ matches = <<>>
    /\ intent = NoIntent

\* the response record before the first request
NoRequest == [route |-> "none", data |-> [kind |-> "invalid"], before |-> EmptyDict,
              status |-> 0, body |-> EmptyDict, pipeline |-> FALSE]

\* a client that has sent no request: its session has no keys
SessionIdle ==
    /\ session = EmptyDict
    /\ http = NoRequest

\* no request is being handled and no component exists
RequestsIdle ==
    /\ objects = <<>>
    /\ requests = <<>>

Init ==
    /\ llm \in LLMStates
    /\ PipelineIdle
    /\ ValidatorIdle
    /\ ConnectorNew
    /\ ExtractorIdle
    /\ SessionIdle
    /\ RequestsIdle

\* the caller invokes process_query(q)
Call(q) ==
    /\ pc = "idle"
    /\ pc' = "extract"
    /\ user_query' = q
    /\ UNCHANGED <<llm, entity_cache, Locals, result, raised, calls>>
    /\ UNCHANGED OutsidePipeline

ExtractEntities ==
    /\ pc = "extract"
    /\ \E reply \in ExtractReplies :
         \E step \in {ExtractStep(user_query, llm, reply, entity_cache)} :
             /\ calls' = calls \o step.events
             /\ entity_cache' = step.cache
             /\ extracted_entities' = step.entities
             /\ result' = step.result
             /\ raised' = step.raised
             /\ pc' = IF step.done THEN "done" ELSE "generate"
    /\ UNCHANGED <<llm, user_query, retry_count, sql_query, query_results, failure,
                   original_error, strategy_index>>
    /\ UNCHANGED OutsidePipeline

GenerateSql ==
    /\ pc = "generate"
    /\ \E reply \in GenerateReplies :
         \E step \in {GenerateStep(user_query, llm, reply, retry_count)} :
             /\ calls' = calls \o step.events
             /\ sql_query' = step.sql
             /\ retry_count' = IF step.retry THEN retry_count + 1 ELSE retry_count
             /\ pc' = IF step.retry THEN "generate" ELSE "generated"
    /\ UNCHANGED <<llm, entity_cache, user_query, extracted_entities, query_results,
                   failure, original_error, strategy_index, result, raised>>
    /\ UNCHANGED OutsidePipeline

CheckSql ==
    /\ pc = "generated"
    /\ \E step \in {CheckStep(user_query, sql_query)} :
           /\ calls' = calls \o step.events
           /\ pc' = step.next
           /\ result' = step.result
           /\ original_error' = step.original_error
           /\ failure' = IF step.next = "fallback" THEN "validation" ELSE failure
           /\ strategy_index' = IF step.next = "fallback" THEN 1 ELSE strategy_index
    /\ UNCHANGED <<llm, entity_cache, user_query, extracted_entities, retry_count,
                   sql_query, query_results, raised>>
    /\ UNCHANGED OutsidePipeline

ExecutePrimary ==
    /\ pc = "execute"
    /\ \E outcome \in ExecOutcomes :
         \E step \in {ExecuteStep(user_query, sql_query, outcome)} :
             /\ calls' = calls \o step.events
             /\ pc' = step.next
             /\ result' = step.result
             /\ raised' = step.raised
             /\ original_error' = step.original_error
             /\ query_results' = IF outcome.kind = "rows" THEN outcome.rows ELSE <<>>
             /\ failure' = IF step.next = "fallback" THEN "execution" ELSE failure
             /\ strategy_index' = IF step.next = "fallback" THEN 1 ELSE strategy_index
    /\ UNCHANGED <<llm, entity_cache, user_query, extracted_entities, retry_count,
                   sql_query>>
    /\ UNCHANGED OutsidePipeline

\* one iteration of the loop of _try_fallback_strategies
FallbackStep ==
    /\ pc = "fallback"
    /\ strategy_index <= Len(fallback_strategies)
    /\ \E outcome \in ExecOutcomes : \E reply \in SynthesisReplies :
         \E step \in {TryStrategy(fallback_strategies[strategy_index], user_query,
                                 extracted_entities, original_error, outcome, llm, reply)} :
             /\ calls' = calls \o step.events
             /\ result' = step.result
             /\ pc' = IF step.accepted THEN "done" ELSE "fallback"
             /\ strategy_index' = IF step.accepted THEN strategy_index
                                  ELSE strategy_index + 1
    /\ UNCHANGED <<llm, entity_cache, user_query, extracted_entities, retry_count,
                   sql_query, query_results, failure, original_error, raised>>
    /\ UNCHANGED OutsidePipeline

\* the loop ended without a result: process_query returns the error record
FallbackExhausted ==
    /\ pc = "fallback"
    /\ strategy_index > Len(fallback_strategies)
    /\ result' = LadderFailed(user_query, failure, original_error)
    /\ pc' = "done"
    /\ UNCHANGED <<llm, entity_cache, user_query, Locals, raised, calls>>
    /\ UNCHANGED OutsidePipeline

HandleEmpty ==
    /\ pc = "empty"
    /\ \E outcome \in ExecOutcomes : \E reply \in SynthesisReplies :
         \E step \in {EmptyStep(user_query, extracted_entities, sql_query, outcome,
                               llm, reply)} :
             /\ calls' = calls \o step.events
             /\ result' = step.result
             /\ raised' = step.raised
    /\ pc' = "done"
    /\ UNCHANGED <<llm, entity_cache, user_query, Locals>>
    /\ UNCHANGED OutsidePipeline

Respond ==
    /\ pc = "respond"
    /\ \E reply \in SynthesisReplies :
         \E step \in {RespondStep(user_query, extracted_entities, sql_query,
                                 query_results, llm, reply)} :
             /\ calls' = calls \o step.events
             /\ result' = step.result
    /\ pc' = "done"
    /\ UNCHANGED <<llm, entity_cache, user_query, Locals, raised>>
    /\ UNCHANGED OutsidePipeline

\* the caller has the record; the pipeline instance is free for the next call
Finish ==
    /\ pc = "done"
    /\ pc' = "idle"
    /\ user_query' = <<>>
    /\ extracted_entities' = EmptyDict
    /\ retry_count' = 0
    /\ sql_query' = None
    /\ query_results' = <<>>
    /\ failure' = "none"
    /\ original_error' = <<>>
    /\ strategy_index' = 0
    /\ result' = <<>>
    /\ raised' = FALSE
    /\ calls' = <<>>
    /\ UNCHANGED <<llm, entity_cache>>
    /\ UNCHANGED OutsidePipeline

Next ==
    \/ \E q \in UserQueries : Call(q)
    \/ ExtractEntities
    \/ GenerateSql
    \/ CheckSql
    \/ ExecutePrimary
    \/ FallbackStep
    \/ FallbackExhausted
    \/ HandleEmpty
    \/ Respond
    \/ Finish

Spec == Init /\ [][Next]_vars

\* ------------------------------------------------- the validator on its own
\* a caller holds a text, has it repaired and validated
ValidatorInit ==
    /\ llm = "ready"
    /\ PipelineIdle
    /\ ConnectorNew
    /\ ExtractorIdle
    /\ SessionIdle
    /\ RequestsIdle
    /\ sql_input \in SqlInputs
    /\ sql_text = sql_input
    /\ repaired = FALSE
    /\ verdicts = EmptyDict

\* sql_query = self._ensure_sqlite_compatibility(sql_query)
Repair ==
    /\ ~repaired
    /\ sql_text' = _ensure_sqlite_compatibility(sql_text)
    /\ repaired' = TRUE
    /\ UNCHANGED <<sql_input, verdicts, OutsideValidator>>

\* self.validate_sql(sql) for the text the caller started from or holds now
Validate ==
    /\ \E sql \in {sql_input, sql_text} :
         /\ sql \in DOMAIN verdicts => verdicts[sql].times < MaxRepeats
         /\ verdicts' = ValidateStep(sql,
                            \/ sql = sql_text /\ repaired
                            \/ sql \in DOMAIN verdicts /\ verdicts[sql].repaired,
                            verdicts)
    /\ UNCHANGED <<sql_input, sql_text, repaired, OutsideValidator>>

ValidatorNext ==
    \/ Repair
    \/ Validate

ValidatorSpec == ValidatorInit /\ [][ValidatorNext]_vars

\* ------------------------------------------------- the extractor on its own
ExtractorInit ==
    /\ llm = "ready"
    /\ PipelineIdle
    /\ ValidatorIdle
    /\ ConnectorNew
    /\ ExtractorIdle
    /\ SessionIdle
    /\ RequestsIdle

OutsideExtractor ==
    <<llm, pc, user_query, Locals, result, raised, calls, ValidatorVars, ConnectorVars,
      SessionVars, RequestVars>>

\* self._fuzzy_match(raw, options)
FuzzyMatch ==
    /\ Len(matches) < MaxMatches
    /\ \E raw \in RawTexts : \E options \in OptionLists :
         \E m \in {_fuzzy_match(raw, options, entity_cache)} :
             /\ matches' = Append(matches, Matched(raw, options, m.match))
             /\ entity_cache' = m.cache
    /\ UNCHANGED <<intent, OutsideExtractor>>

\* self._resolve_entities(entities)
ResolveEntities ==
    /\ \E entities \in EntityInputs :
         \E r \in {_resolve_entities(entities, entity_cache)} :
             /\ intent' = [entities |-> entities, raised |-> r.raised,
                           resolved |-> r.value]
             /\ entity_cache' = r.cache
    /\ UNCHANGED <<matches, OutsideExtractor>>

ExtractorNext ==
    \/ FuzzyMatch
    \/ ResolveEntities

ExtractorSpec == ExtractorInit /\ [][ExtractorNext]_vars

\* ------------------------------------------------ two requests at a time
RequestsInit ==
    /\ llm = "ready"
    /\ PipelineIdle
    /\ ValidatorIdle
    /\ ConnectorNew
    /\ ExtractorIdle
    /\ SessionIdle
    /\ objects = <<>>
    /\ requests = [r \in RequestIds |-> NoLocals]

OutsideRequests ==
    <<PipelineVars, ValidatorVars, ConnectorVars, ExtractorVars, SessionVars>>

\* db_connector = DatabaseConnector(db_path='data/ucla_wbb.db')
NewConnector(r) ==
    /\ requests[r].pc = "start"
    /\ \E c \in {Construct(objects, Object("DatabaseConnector", 0, 0))} :
           /\ objects' = c.objects
           /\ requests' = [requests EXCEPT ![r].db_connector = c.id, ![r].pc = "connect"]
    /\ UNCHANGED OutsideRequests

\* db_connector.connect()
Connect(r) ==
    /\ requests[r].pc = "connect"
    /\ \E now \in {"open", "closed"} :
           objects' = [objects EXCEPT ![requests[r].db_connector].conn = now]
    /\ requests' = [requests EXCEPT ![r].pc = "manager"]
    /\ UNCHANGED OutsideRequests

\* llm_manager = LLMManager()
NewManager(r) ==
    /\ requests[r].pc = "manager"
    /\ \E c \in {Construct(objects, Object("LLMManager", 0, 0))} :
           /\ objects' = c.objects
           /\ requests' = [requests EXCEPT ![r].llm_manager = c.id, ![r].pc = "pipeline"]
    /\ UNCHANGED OutsideRequests

\* rag_pipeline = RAGPipeline(llm_manager, db_connector, ...): the pipeline
\* constructs its extractor, which reads three columns, and its generator,
\* which reads the schema
NewPipeline(r) ==
    /\ requests[r].pc = "pipeline"
    /\ \E env \in RequestEnvironments :
         LET db == requests[r].db_connector
             mgr == requests[r].llm_manager
             p == Construct(objects, Object("RAGPipeline", db, mgr))
             e == Construct(p.objects, Object("EntityExtractor", db, mgr))
             g == Construct(e.objects, Object("SQLQueryGenerator", db, mgr))
         IN  /\ objects' = [g.objects EXCEPT ![p.id].entity_extractor = e.id,
                                             ![p.id].query_generator = g.id,
                                             ![db] = Queries(objects[db], env, 4)]
             /\ requests' = [requests EXCEPT ![r].rag_pipeline = p.id, ![r].pc = "process"]
    /\ UNCHANGED OutsideRequests

\* result = rag_pipeline.process_query(user_query): the extractor matches a
\* name, the connector runs the query
Process(r) ==
    /\ requests[r].pc = "process"
    /\ \E env \in RequestEnvironments : \E raw \in {"", "Kiki Rice"} :
         LET p == objects[requests[r].rag_pipeline]
         IN  objects' = [objects EXCEPT
                 ![p.entity_extractor].entity_cache =
                     _fuzzy_match(raw, players, @).cache,
                 ![p.db] = Queries(@, env, 1)]
    /\ requests' = [requests EXCEPT ![r].pc = "close"]
    /\ UNCHANGED OutsideRequests

\* db_connector.close()
Close(r) ==
    /\ requests[r].pc = "close"
    /\ objects' = [objects EXCEPT ![requests[r].db_connector].conn = "closed"]
    /\ requests' = [requests EXCEPT ![r].pc = "done"]
    /\ UNCHANGED OutsideRequests

RequestsNext ==
    \/ \E r \in RequestIds : NewConnector(r)
    \/ \E r \in RequestIds : Connect(r)
    \/ \E r \in RequestIds : NewManager(r)
    \/ \E r \in RequestIds : NewPipeline(r)
    \/ \E r \in RequestIds : Process(r)
    \/ \E r \in RequestIds : Close(r)

RequestsSpec == RequestsInit /\ [][RequestsNext]_vars

\* ------------------------------------------------- the connector on its own
ConnectorInit ==
    /\ llm = "ready"
    /\ PipelineIdle
    /\ ValidatorIdle
    /\ ConnectorNew
    /\ ExtractorIdle
    /\ SessionIdle
    /\ RequestsIdle

\* one call of execute_query
ExecuteQuery ==
    /\ query_stats.total_queries < MaxQueries
    /\ \E query \in DbQueries : \E return_error \in BOOLEAN : \E validate_first \in BOOLEAN :
         \E env \in DbEnvironments(query, conn) :
           \E step \in {execute_query(query, return_error, validate_first, env, conn,
                                      query_stats)} :
               /\ conn' = step.conn
               /\ query_stats' = step.query_stats
               /\ opened' = IF conn = "closed" /\ step.conn = "open" THEN 1 ELSE 0
               /\ db_call' = [query |-> query, validate_first |-> validate_first,
                              return_error |-> return_error,
                              executed |-> step.executed, raised |-> step.raised,
                              elapsed |-> IF step.executed THEN env.run.time ELSE 0,
                              value |-> step.value]
               /\ run_times' = IF step.value.rows # None
                                 THEN Append(run_times, env.run.time) ELSE run_times
    /\ intro' = NoIntro
    /\ UNCHANGED OutsideConnector

\* DatabaseConnector.close
CloseConnection ==
    /\ conn = "open"
    /\ conn' = "closed"
    /\ opened' = 0
    /\ UNCHANGED <<query_stats, db_call, intro, run_times, OutsideConnector>>

\* one call of get_table_schema, get_distinct_values, get_table_names or
\* get_row_count
Introspection ==
    /\ query_stats.total_queries < MaxQueries
    /\ \E op \in IntrospectionOps : \E target \in IntroTargets(op) :
         \E first \in {"ok", "fail"} : \E second \in {"ok", "fail"} :
           \E run \in IntroRuns(op, target) :
             \E r \in {Introspect(op, first,
                                  [connect |-> second, explain |-> "ok", run |-> run],
                                  conn, query_stats)} :
                 /\ conn' = r.call.conn
                 /\ query_stats' = r.call.query_stats
                 /\ opened' = r.opened
                 /\ db_call' = [query |-> IntroQuery(op), validate_first |-> FALSE,
                                return_error |-> FALSE, executed |-> r.call.executed,
                                raised |-> r.call.raised,
                                elapsed |-> IF r.call.executed THEN run.time ELSE 0,
                                value |-> r.call.value]
                 /\ intro' = [op |-> op, target |-> target, connects |-> r.connects,
                              raised |-> r.raised, value |-> r.value]
                 /\ run_times' = IF r.call.value.rows # None
                                   THEN Append(run_times, run.time) ELSE run_times
    /\ UNCHANGED OutsideConnector

ConnectorNext ==
    \/ ExecuteQuery
    \/ CloseConnection
    \/ Introspection

ConnectorSpec == ConnectorInit /\ [][ConnectorNext]_vars

\* ------------------------------------------------------------- properties
\* the positions in calls of the calls of one operation
CallsOf(op) == {i \in DOMAIN calls : calls[i].op = op}
\* the calls of the text-generation service made by one caller
TextCallsOf(site) == {i \in CallsOf("generate_text") : calls[i].arg = <<site>>}
GenerationCalls == TextCallsOf("generate_sql_query")
StrategyCalls == CallsOf("strategy")
ExecuteCalls == CallsOf("execute_query")
ExtractionReturned == \E i \in CallsOf("extract_entities") : calls[i].out = "return"

SetMin(S) == CHOOSE i \in S : \A j \in S : i <= j
SetMax(S) == CHOOSE i \in S : \A j \in S : j <= i

\* the order of the ladder the specification gives: (a), (b), (c)
LadderOrder ==
    <<"_simplify_aggregation_query", "_convert_to_basic_select",
      "_create_player_lookup_query">>

\* the primary query did not pass the validation of process_query
PrimaryInvalid ==
    /\ ExtractionReturned
    /\ pc \in {"fallback", "done"}
    /\ Truthy(sql_query)
    /\ ~validate_sql(sql_query).valid

\* the execution of the primary query returned an error
PrimaryExecError ==
    /\ ExecuteCalls # {}
    /\ calls[SetMin(ExecuteCalls)].out = "error"
    /\ \A k \in StrategyCalls : SetMin(ExecuteCalls) < k

\* the execution of the primary query returned no rows
PrimaryEmpty ==
    /\ ExecuteCalls # {}
    /\ calls[SetMin(ExecuteCalls)].out = "empty"
    /\ \A k \in StrategyCalls : SetMin(ExecuteCalls) < k

\* C1: whatever the question and whatever the collaborators do (the service
\* answers or raises, the executor returns rows, an error, or raises),
\* process_query ends with a result record and no exception reaches its caller
C1_ReturnsRecord ==
    /\ raised = FALSE
    /\ pc = "done" => {"user_query", "response", "success"} \subseteq DOMAIN result

\* a request ended with a record although the executor raised
C1_Witness ==
    /\ pc = "done"
    /\ \E i \in ExecuteCalls : calls[i].out = "raise"
    /\ result.success = FALSE

\* C2: when the credential is missing, process_query returns without raising
\* a record with success = false and an error_type that tells the missing
\* credential from another failure of the initialization
C2_CredentialErrorType ==
    (pc = "done" /\ llm = "missing_key") =>
        /\ raised = FALSE
        /\ result.success = FALSE
        /\ \/ "error_type" \in DOMAIN result
           \/ process_with_rag_pipeline(result).error_type = "api_key_missing"

\* C3: extract_entities never raises, also when its call of the
\* text-generation service fails
C3_ExtractorNeverRaises ==
    \A i \in CallsOf("extract_entities") : calls[i].out = "return"

\* C4: when the generator returned None or the empty string, process_query
\* returns the failure record with the fixed message, and neither a fallback
\* strategy nor the executor has been called
C4_NoSqlNoFallback ==
    (pc = "done" /\ ExtractionReturned /\ sql_query \in {None, <<>>}) =>
        /\ result = [user_query |-> user_query,
                     error |-> <<"Failed to generate SQL query">>,
                     sql_query |-> None, query_results |-> None,
                     response |-> <<"The system could not create a valid SQL query for your request.">>,
                     success |-> FALSE]
        /\ StrategyCalls = {}
        /\ ExecuteCalls = {}

\* the generator used its three attempts and returned the empty string
C4_Witness ==
    /\ pc = "done"
    /\ ExtractionReturned
    /\ sql_query = <<>>
    /\ Cardinality(GenerationCalls) = 3
    /\ result.success = FALSE

\* C5: when the primary query fails the validation or its execution returns
\* an error, the ladder is run before anything is returned; a failure record
\* is returned only after every strategy of the ladder was tried, and it
\* reports the reason of the primary failure
C5_LadderBeforeError ==
    (pc = "done" /\ (PrimaryInvalid \/ PrimaryExecError)) =>
        /\ StrategyCalls # {}
        /\ \/ result.success /\ "fallback_used" \in DOMAIN result
           \/ /\ ~result.success
              /\ Cardinality(StrategyCalls) = Len(LadderOrder)
              /\ IF PrimaryInvalid
                   THEN result.error = <<"SQL validation failed: ",
                                         validate_sql(sql_query).reason>>
                 ELSE \E o \in ExecOutcomes :
                          /\ o.kind = "error"
                          /\ result.error = <<"SQL execution failed: ">> \o o.error

\* the primary execution returned an error and all three strategies failed
C5_Witness ==
    /\ pc = "done"
    /\ PrimaryExecError
    /\ Cardinality(StrategyCalls) = 3
    /\ ~result.success

\* C6: when the primary query of a question about a player returns no rows,
\* the player filter is stripped from the query and the query is executed
\* again
C6_StripsAndReexecutes ==
    (/\ pc = "done"
     /\ PrimaryEmpty
     /\ HasPlayers(extracted_entities)
     /\ HasPhrase(sql_query, <<"WHERE", "Name", "=", "'Rice, Kiki'">>))
    => /\ Cardinality(ExecuteCalls) = 2
       /\ ~HasPhrase(calls[SetMax(ExecuteCalls)].arg, <<"Name", "=", "'Rice, Kiki'">>)

\* the strategies tried so far, in the order of their calls
StrategySeq == SelectSeq(calls, LAMBDA e : e.op = "strategy")

\* C7: the ladder tries its strategies in the order (a), (b), (c) and stops at
\* the first success: once a candidate returned rows no further strategy is
\* tried
C7_LadderOrder ==
    /\ Len(StrategySeq) <= Len(LadderOrder)
    /\ \A k \in DOMAIN StrategySeq : StrategySeq[k].arg = <<LadderOrder[k]>>
    /\ \A i \in ExecuteCalls : \A k \in StrategyCalls :
           (calls[i].out = "rows" /\ SetMin(StrategyCalls) < i) => k < i

\* strategy (a) satisfied the question and was the only one tried
C7_Witness ==
    /\ pc = "done"
    /\ Len(StrategySeq) = 1
    /\ "fallback_used" \in DOMAIN result
    /\ result.success
    /\ HasPhrase(result.sql_query, <<"AVG", "(", "Pts", ")">>)

\* the call after position i is the call of the next strategy, if there is one
NextIsStrategy(i) == i + 1 \in DOMAIN calls => calls[i + 1].op = "strategy"

\* C8: a candidate of the ladder is accepted only after it passed validate_sql
\* and was executed without an error; a candidate that fails is skipped, and
\* no strategy is tried twice in one run of the ladder
C8_AcceptedAfterChecks ==
    /\ \A j \in StrategyCalls : \A k \in StrategyCalls :
           calls[j].arg = calls[k].arg => j = k
    /\ (pc = "done" /\ "original_error" \in DOMAIN result) =>
           /\ SetMax(StrategyCalls) + 2 \in DOMAIN calls
           /\ calls[SetMax(StrategyCalls) + 1] =
                  [op |-> "validate_sql", arg |-> result.sql_query, out |-> "valid"]
           /\ calls[SetMax(StrategyCalls) + 2] =
                  [op |-> "execute_query", arg |-> result.sql_query, out |-> "rows"]
    /\ \A k \in StrategyCalls :
           /\ (k + 1 \in DOMAIN calls /\ calls[k + 1].out = "invalid")
                  => NextIsStrategy(k + 1)
           /\ (k + 2 \in DOMAIN calls /\ calls[k + 2].op = "execute_query"
                                       /\ calls[k + 2].out # "rows")
                  => NextIsStrategy(k + 2)

\* a candidate was accepted after an earlier one had failed its execution
C8_Witness ==
    /\ pc = "done"
    /\ "original_error" \in DOMAIN result
    /\ Cardinality(StrategyCalls) >= 2
    /\ \E i \in ExecuteCalls : SetMin(StrategyCalls) < i /\ calls[i].out = "error"

\* C9: generate_sql_query asks the service again only after the validation of
\* the repaired text failed, and at most twice, so that it makes at most three
\* calls of the service; with the retries used up it returns the text
\* generated last
C9_BoundedRegeneration ==
    /\ Cardinality(GenerationCalls) <= 3
    /\ \A i \in GenerationCalls :
           i # SetMin(GenerationCalls) =>
               calls[i - 1].op = "validate_sql" /\ calls[i - 1].out = "invalid"
    /\ (pc = "generated" /\ GenerationCalls # {}
                          /\ calls[Len(calls)].op = "validate_sql")
           => sql_query = calls[Len(calls)].arg

\* the third attempt gave a text that is still invalid, and it is returned
C9_Witness ==
    /\ pc = "generated"
    /\ Cardinality(GenerationCalls) = 3
    /\ calls[Len(calls)] = [op |-> "validate_sql", arg |-> sql_query, out |-> "invalid"]
    /\ Truthy(sql_query)

\* the result of a finished request is a success, an empty result or an error
Settled ==
    /\ pc = "done"
    /\ \/ result.success
       \/ "empty_results" \in DOMAIN result
       \/ "error" \in DOMAIN result

\* an upper bound of the steps a request has still to take
Rank ==
    CASE pc = "extract" -> 11
      [] pc = "generate" -> 10 - retry_count
      [] pc = "generated" -> 7
      [] pc = "execute" -> 6
      [] pc = "fallback" -> 5 - strategy_index
      [] pc \in {"empty", "respond"} -> 1
      [] OTHER -> 0

\* C10: when every call of a collaborator returns, each call of process_query
\* ends with a success, an empty result or an error, after at most one call of
\* the extractor, three calls of the service by the generator, three
\* strategies of the ladder, and nothing else repeated: a request that has not
\* ended can take a step, every step brings it nearer to its end, and the
\* calls it makes stay within these numbers
C10_Terminates ==
    /\ [](/\ Cardinality(CallsOf("extract_entities")) <= 1
          /\ Cardinality(TextCallsOf("extract_entities")) <= 1
          /\ Cardinality(GenerationCalls) <= 3
          /\ Cardinality(StrategyCalls) <= 3
          /\ Cardinality(TextCallsOf("_generate_response")) <= 1
          /\ Cardinality(ExecuteCalls) <= 1 + Cardinality(StrategyCalls)
                                          + (IF PrimaryEmpty THEN 1 ELSE 0)
          /\ Cardinality(CallsOf("validate_sql"))
                 <= Cardinality(GenerationCalls) + 1 + Cardinality(StrategyCalls)
          /\ Rank >= 0
          /\ pc = "done" => Settled
          /\ pc \notin {"idle", "done"} => ENABLED Next)
    /\ [][pc \notin {"idle", "done"} => Rank' < Rank]_vars

\* a request that used three generations and three strategies has ended
C10_Witness ==
    /\ pc = "done"
    /\ Cardinality(GenerationCalls) = 3
    /\ Cardinality(StrategyCalls) = 3

\* the fields the specification lists for every result record
RecordFields ==
    {"user_query", "extracted_entities", "sql_query", "query_results",
     "response", "success"}

\* C11: every result record process_query returns, on every path, contains
\* the fields user_query, extracted_entities, sql_query, query_results,
\* response and success
C11_RecordFields ==
    pc = "done" => RecordFields \subseteq DOMAIN result

\* the sentences a failure record shows to the user
FixedSentences ==
    {NoSqlMessage, InvalidSqlMessage, ExecutionMessage, UnexpectedMessage,
     _create_empty_response(<<>>, None).response}

\* the text of the failure a request met: the reason of the validator or the
\* error of the executor for the primary query
FailureText == IF pc = "done" /\ (PrimaryInvalid \/ PrimaryExecError)
                 THEN original_error ELSE <<>>

\* C12 as stated: in a record with success = false the response is one of the
\* fixed sentences, and the record carries neither the SQL text nor the error
\* text of the validator or of the executor
C12_NothingCarried ==
    (pc = "done" /\ ~result.success) =>
        /\ result.response \in FixedSentences
        /\ result.sql_query = None
        /\ FailureText # <<>> =>
               \A f \in DOMAIN result \ {"success", "empty_results"} :
                   ~HasPhrase(result[f], FailureText)

\* C12, corrected: in a record with success = false the response is one of
\* the fixed sentences and holds no SQL text and no error text; the record
\* carries the reason of the failure in its field error, or, in the record for
\* an empty result, the executed query in its field sql_query; none of both is
\* in the record process_with_rag_pipeline hands on, which has the fields
\* response, success and error_type only
C12_FixedSentence ==
    (pc = "done" /\ ~result.success) =>
        /\ result.response \in FixedSentences
        /\ FailureText # <<>> => ~HasPhrase(result.response, FailureText)
        /\ Truthy(sql_query) => ~HasPhrase(result.response, sql_query)
        /\ \/ /\ "error" \in DOMAIN result
              /\ result.sql_query = None
              /\ result.query_results = None
              /\ FailureText # <<>> => HasPhrase(result.error, FailureText)
           \/ /\ "error" \notin DOMAIN result
              /\ "empty_results" \in DOMAIN result
              /\ result.sql_query = sql_query
              /\ result.query_results = <<>>
        /\ process_with_rag_pipeline(result)
             = [response |-> result.response, success |-> FALSE,
                error_type |-> "unknown_error"]

\* the primary query failed the validation, the ladder found nothing, and the
\* record carries the reason of the validator beside the fixed sentence
C12_Witness ==
    /\ pc = "done"
    /\ PrimaryInvalid
    /\ ~result.success
    /\ result.response = InvalidSqlMessage
    /\ HasPhrase(result.error, <<validate_sql(sql_query).reason>>)

\* the call of the text-generation service made by _generate_response failed
SynthesisFailed ==
    \E i \in TextCallsOf("_generate_response") : calls[i].out = "raise"

\* C13: when rows were returned and the call of the text-generation service
\* for the answer raises, process_query does not fail: it returns a record
\* with success = true whose response is the templated summary of the rows
C13_SynthesisNeverFails ==
    (pc = "done" /\ SynthesisFailed) =>
        /\ raised = FALSE
        /\ result.success
        /\ result.query_results # <<>>
        /\ HasPhrase(result.response, _create_basic_response(result.query_results))

\* the primary query returned rows, the service failed, and the record holds
\* the summary of the rows
C13_Witness ==
    /\ pc = "done"
    /\ SynthesisFailed
    /\ StrategyCalls = {}
    /\ result.success
    /\ result.response = _create_basic_response(result.query_results)
    /\ Len(result.query_results) = MaxRows

\* the texts the validator accepted
Accepted == {t \in DOMAIN verdicts : verdicts[t].verdict.valid}

\* the tokens of another dialect the specification names, in any case
ForbiddenTokens == {"EXTRACT", "INTERVAL", "ILIKE", "STDDEV", "VARIANCE"}
HasForbiddenToken(t) ==
    \/ \E i \in 1..Len(t) : IgnoreCase(t[i]) \in ForbiddenTokens
    \/ \E i \in 1..Len(t) : t[i] \in CastTokens
    \/ \E i \in 1..(Len(t) - 1) : t[i] = "SIMILAR" /\ t[i + 1] = "TO"

\* C14: a text validate_sql reports as valid contains none of the forbidden
\* tokens EXTRACT, INTERVAL, ILIKE, '::', STDDEV, VARIANCE, SIMILAR TO
C14_NoForbiddenWhenValid ==
    \A t \in Accepted : ~HasForbiddenToken(t)

\* a text with ILIKE was rejected, and its repaired form, without the token,
\* was accepted
C14_Witness ==
    /\ repaired
    /\ {sql_input, sql_text} \subseteq DOMAIN verdicts
    /\ Has(sql_input, "ilike")
    /\ ~verdicts[sql_input].verdict.valid
    /\ verdicts[sql_input].verdict.reason = ForbiddenMsgs[6]
    /\ sql_text \in Accepted
    /\ Has(sql_text, "LIKE")

\* C15: every text that came out of the repair of the generator and that the
\* validator accepts has as many opening as closing parentheses
C15_BalancedParens ==
    \A t \in Accepted : verdicts[t].repaired => Count(t, "(") = Count(t, ")")

RuleFails(t, rule) ==
    CASE rule = "empty" -> t = None \/ \A i \in 1..Len(t) : t[i] = "\n"
      [] rule = "group_by_aggregate" -> GroupByAggregate(t)
      [] rule = "cte_in_where" -> CteInWhere(t)
      [] rule = "forbidden" -> \E n \in DOMAIN ForbiddenMsgs : ForbiddenHit(t, n)
      [] rule = "unquoted" -> \E n \in DOMAIN UnquotedMsgs : UnquotedHit(t, n)
      [] rule = "syntax" -> \E n \in DOMAIN SyntaxMsgs : SyntaxHit(t, n)
      [] rule = "table" -> ~Has(t, table_name)
      [] rule = "select" -> ~Has(t, "SELECT")

\* the reason a failing rule gives for a text
RuleReason(t, rule) ==
    CASE rule = "empty" -> "Empty SQL query"
      [] rule = "group_by_aggregate" ->
           "SQLite syntax error: aggregate functions are not allowed in the GROUP BY clause"
      [] rule = "cte_in_where" ->
           "SQLite syntax error: CTE (WITH clause) cannot be used inside WHERE clause"
      [] rule = "forbidden" ->
           ForbiddenMsgs[SetMin({n \in DOMAIN ForbiddenMsgs : ForbiddenHit(t, n)})]
      [] rule = "unquoted" ->
           UnquotedMsgs[SetMin({n \in DOMAIN UnquotedMsgs : UnquotedHit(t, n)})]
      [] rule = "syntax" ->
           SyntaxMsgs[SetMin({n \in DOMAIN SyntaxMsgs : SyntaxHit(t, n)})]
      [] rule = "table" -> "Query must reference table 'ucla_player_stats'"
      [] rule = "select" -> "Query must contain SELECT statement"

\* the verdict for a text when the rules are applied in the given order and
\* the first rule that fails gives the reason
FirstFailing(t, order) ==
    LET failing == {k \in DOMAIN order : RuleFails(t, order[k])}
    IN  IF failing = {} THEN Verdict(TRUE, "None")
        ELSE Verdict(FALSE, RuleReason(t, order[SetMin(failing)]))

\* the order of the rules as stated
StatedOrder == <<"empty", "forbidden", "unquoted", "syntax", "table", "select">>

\* the order of the rules with the two checks that stand between the check
\* for an empty text and the forbidden tokens
CheckedOrder ==
    <<"empty", "group_by_aggregate", "cte_in_where", "forbidden", "unquoted",
      "syntax", "table", "select">>

\* C17 as stated: validate_sql applies its rules in the order empty text,
\* forbidden token, unquoted special identifier, broken WHERE or parenthesis,
\* missing table, missing SELECT, and returns the reason of the first rule
\* that fails
C17_StatedOrder ==
    \A t \in DOMAIN verdicts : verdicts[t].verdict = FirstFailing(t, StatedOrder)

\* C17, corrected: validate_sql applies its rules in the order empty text,
\* aggregate in GROUP BY, WITH clause inside WHERE, forbidden token, unquoted
\* special identifier, broken WHERE or parenthesis, missing table, missing
\* SELECT, and returns the reason of the first rule that fails
C17_CheckedOrder ==
    \A t \in DOMAIN verdicts : verdicts[t].verdict = FirstFailing(t, CheckedOrder)

\* a text that fails the rule for forbidden tokens and the rule for the table
\* got the reason of the forbidden token, and a text with an aggregate in
\* GROUP BY and a forbidden token got the reason of the aggregate
C17_Witness ==
    /\ {sql_input, sql_text} \subseteq DOMAIN verdicts
    /\ RuleFails(sql_input, "group_by_aggregate")
    /\ RuleFails(sql_input, "forbidden")
    /\ verdicts[sql_input].verdict.reason = RuleReason(sql_input, "group_by_aggregate")
    /\ RuleFails(sql_text, "forbidden")
    /\ RuleFails(sql_text, "table")
    /\ verdicts[sql_text].verdict.reason = RuleReason(sql_text, "forbidden")

\* the statements the pre-check is to keep from the database
Destructive(query) ==
    \E i \in 1..Len(query) : query[i] \in {"DROP", "DELETE", "UPDATE", "INSERT", "ALTER"}
Stacked(query) == \E i \in 1..Len(query) : query[i] = ";" /\ NextTok(query, i) # ""
CommentInjected(query) == \E i \in 1..Len(query) : query[i] \in {"--", "/*"}
UnionInjected(query) == HasPhrase(query, <<"UNION", "SELECT">>)
Unsafe(query) ==
    \/ Destructive(query)
    \/ Stacked(query)
    \/ CommentInjected(query)
    \/ UnionInjected(query)
    \/ ~Has(query, "SELECT")

\* C18: with validate_first, execute_query never runs a statement that is
\* destructive (DROP, DELETE, UPDATE, INSERT, ALTER), stacked after a
\* semicolon, comment-injected, UNION-injected or without SELECT: the
\* pre-check rejects it and an error is returned without an execution
C18_UnsafeNeverExecuted ==
    (db_call.validate_first /\ Unsafe(db_call.query)) =>
        /\ ~db_call.executed
        /\ db_call.value.rows = None

\* the step is a call of execute_query
IsCall == query_stats'.total_queries = query_stats.total_queries + 1

\* the beginnings of the error messages of execute_query
ErrorPrefixes == {"Validation error: ", "SQLite error: ", "Unexpected error: "}

\* C19: a call of execute_query that fails (the pre-check rejects the query,
\* the database reports an error, or anything else raises, also when the
\* connection could not be opened) increments failed_queries by exactly one,
\* returns (None, error message) when return_error is set, and does not raise
C19_FailureCounted ==
    [][(IsCall /\ db_call'.value.rows = None) =>
          /\ query_stats'.failed_queries = query_stats.failed_queries + 1
          /\ query_stats'.avg_execution_time = query_stats.avg_execution_time
          /\ ~db_call'.raised
          /\ IF db_call'.return_error
               THEN /\ DOMAIN db_call'.value = {"rows", "error"}
                    /\ db_call'.value.error # None
                    /\ db_call'.value.error[1] \in ErrorPrefixes
             ELSE db_call'.value = [rows |-> None]]_vars

\* three calls failed, the last one because no connection could be opened
C19_Witness ==
    /\ conn = "closed"
    /\ query_stats.total_queries = 3
    /\ query_stats.failed_queries = 3
    /\ db_call.return_error
    /\ ~db_call.validate_first
    /\ db_call.value.rows = None
    /\ db_call.value.error[1] = "Unexpected error: "

\* C20: after a successful call of execute_query total_queries is one more,
\* failed_queries is what it was, and avg_execution_time is
\* (old_avg * (n - 1) + elapsed) / n for the new value n of total_queries
C20_RunningMean ==
    [][(IsCall /\ db_call'.value.rows # None) =>
          LET n == query_stats'.total_queries
              old_avg == query_stats.avg_execution_time
              new_avg == query_stats'.avg_execution_time
          IN  /\ n = query_stats.total_queries + 1
              /\ query_stats'.failed_queries = query_stats.failed_queries
              /\ db_call'.executed
              /\ new_avg.den > 0
              /\ new_avg.num * (old_avg.den * n)
                   = (old_avg.num * (n - 1) + db_call'.elapsed * old_avg.den) * new_avg.den]_vars

\* the third call succeeded after a success and a failure: the mean of the
\* times 4 and 1 over three calls
C20_Witness ==
    /\ query_stats.total_queries = 3
    /\ query_stats.failed_queries = 1
    /\ db_call.value.rows # None
    /\ db_call.elapsed = 1
    /\ query_stats.avg_execution_time = [num |-> 3, den |-> 1]

\* the values of a sequence
Range(seq) == {seq[i] : i \in DOMAIN seq}

\* the known values a field of the intent record is to be validated against:
\* the lists _load_common_entities read; for the other fields the extractor
\* holds no list
KnownValues(field) ==
    CASE field = "player_names" -> Range(players)
      [] field = "player_number" -> Range(player_numbers)
      [] field = "opponent" -> Range(opponents)
      [] OTHER -> {}

\* C21: every populated field of the intent record the extractor returns was
\* validated against the set of known values for the field; no field carries
\* a value taken as it is from the answer of the model or from the question
C21_FieldsValidated ==
    ~intent.raised =>
        \A f \in DOMAIN intent.resolved :
            Range(intent.resolved[f].v) \subseteq KnownValues(f)

\* the candidates of a field that reach the threshold against a list, and the
\* options they resolve to
Passing(candidates, options) ==
    SelectSeq(candidates,
              LAMBDA c : c # "" /\ \E o \in Range(options) : Score(c, o) >= 75)
Nearest(c, options) ==
    CHOOSE o \in Range(options) : \A other \in Range(options) : Score(c, other) <= Score(c, o)
Resolved(candidates, options) ==
    [i \in 1..Len(Passing(candidates, options)) |->
        Nearest(Passing(candidates, options)[i], options)]
Candidates(entities, field) ==
    IF field \in DOMAIN entities /\ entities[field].type \in {"str", "list"}
      THEN entities[field].v ELSE <<>>

C23_Deterministic ==
    \A i \in DOMAIN matches : \A j \in DOMAIN matches :
        (matches[i].raw = matches[j].raw /\ matches[i].options = matches[j].options)
            => matches[i].match = matches[j].match

\* the instances a request works with: the ones it constructed and the ones
\* its pipeline refers to
Reachable(ids) ==
    (ids \cup UNION {{objects[i].db, objects[i].llm, objects[i].entity_extractor,
                      objects[i].query_generator} : i \in ids \ {0}}) \ {0}
Owned(r) ==
    Reachable(Reachable({requests[r].db_connector, requests[r].llm_manager,
                         requests[r].rag_pipeline}))

\* C24: two requests handled at the same time work with their own connector,
\* manager, extractor, generator and pipeline and their own connection: no
\* instance is used by both, and a step of one request changes no query
\* statistics, entity cache or connection of the other
C24_Isolated ==
    /\ [](\A r1 \in RequestIds : \A r2 \in RequestIds \ {r1} :
             Owned(r1) \cap Owned(r2) = {})
    /\ [][\A r \in RequestIds :
             requests'[r] = requests[r] =>
                 \A i \in Owned(r) : objects'[i] = objects[i]]_vars

\* both requests ended; each one opened its connection, counted its five
\* queries and filled its cache, on five instances of its own
C24_Witness ==
    /\ \A r \in RequestIds :
          /\ requests[r].pc = "done"
          /\ Cardinality(Owned(r)) = 5
          /\ objects[requests[r].db_connector].query_stats.total_queries = 5
          /\ objects[objects[requests[r].rag_pipeline].entity_extractor].entity_cache
                 # EmptyDict
    /\ objects[1].class = "DatabaseConnector"
    /\ objects[2].class = "DatabaseConnector"

\* ------------------------------------------------------------------ C25
\* a step that is one call of execute_query or of an introspection operation
C25_Call == query_stats'.total_queries = query_stats.total_queries + 1

\* C25: the connector connects lazily. A call of execute_query,
\* get_table_schema, get_distinct_values, get_table_names or get_row_count
\* made while no connection is open tries to open one before it runs
\* anything, so that a call that ran its statement from the closed state has
\* opened exactly one connection; a call made while a connection is open
\* makes no connect attempt, opens none and leaves the connection open.
C25_LazyConnect ==
    [][C25_Call =>
         /\ conn = "open" =>
              /\ opened' = 0
              /\ conn' = "open"
              /\ intro' # NoIntro => intro'.connects = 0
         /\ conn = "closed" =>
              /\ (conn' = "open") <=> (opened' = 1)
              /\ db_call'.executed => opened' = 1
              /\ intro' # NoIntro => intro'.connects >= 1]_vars

\* the second call found the connection of the first one closed again and
\* opened another
C25_Witness ==
    /\ intro.op = "get_row_count"
    /\ opened = 1
    /\ conn = "open"
    /\ query_stats.total_queries = 2
    /\ query_stats.failed_queries = 0

\* ------------------------------------------------------------------ C26
\* the results that hold nothing: None, an empty list, the count 0
EmptyResults == {NoValue, List(<<>>), Number("0")}

\* C26: an introspection operation asked about a table or a column that
\* does not exist does not raise and returns an empty result.
C26_MissingIsEmpty ==
    (intro.op # "none" /\ intro.target # "present") =>
        (~intro.raised /\ intro.value \in EmptyResults)

\* ------------------------------------------------- the routes of app.py
\* str.split(): the words of a text, the line breaks between them dropped
Split(s) == SelectSeq(s, LAMBDA t : t # "\n")

\* a text as a value of a JSON body
Str(tokens) == [type |-> "str", v |-> tokens]

\* the texts a client sends as the query
QueryTexts == {<<>>, <<"\n">>, <<"test">>, <<"\n", "test", "query", "\n">>}

\* what request.get_json() yields: nothing usable (no JSON body, or the JSON
\* null), or an object with or without a query, which may not be a string
QueryData ==
    {[kind |-> "invalid"], [kind |-> "object", fields |-> EmptyDict],
     [kind |-> "object", fields |-> [query |-> Number("5")]]}
    \cup {[kind |-> "object", fields |-> [query |-> Str(t)]] : t \in QueryTexts}

\* the records process_with_rag_pipeline returns, by their response text
ResponseData ==
    {[response |-> <<>>, success |-> FALSE],
     [response |-> <<"Rice">>, success |-> TRUE],
     [response |-> <<"Rice", "\n", "scored", "20">>, success |-> TRUE]}

\* init_session, run before every request
init_session(sess) ==
    [token_count |-> IF "token_count" \in DOMAIN sess THEN sess.token_count ELSE 0,
     chat_history |-> IF "chat_history" \in DOMAIN sess THEN sess.chat_history ELSE <<>>]

\* the except clause of query
QueryFailed(sess) ==
    [session |-> sess, status |-> 200, pipeline |-> FALSE,
     body |-> [response |-> <<"Sorry, there was an error processing your question. Please try again.">>]]

\* the entry query appends; its timestamp is left out
Entry(text, response, token_count) ==
    [query |-> text, response |-> response, tokens |-> token_count]

\* a variant of query that does not add the tokens to the session total
QueryUncounted(sess, data, response_data) ==
    IF data.kind # "object"
      THEN QueryFailed(sess)
    ELSE LET value == IF "query" \in DOMAIN data.fields THEN data.fields.query
                      ELSE Str(<<>>)
         IN  IF value.type # "str"
               THEN QueryFailed(sess)
             ELSE LET text == Strip(value.v)
                      response == response_data.response
                      token_count == Len(Split(response))
                      counted == sess
                  IN  IF text = <<>>
                        THEN [session |-> sess, status |-> 400, pipeline |-> FALSE,
                              body |-> [error |-> <<"Please enter a question">>]]
                      ELSE [session |-> [counted EXCEPT !.chat_history =
                                Append(@, Entry(text, response, token_count))],
                            status |-> 200, pipeline |-> TRUE,
                            body |-> [response |-> response, tokens |-> token_count,
                                      total_tokens |-> counted.token_count]]

\* a variant of query that does not strip the text
QueryUnstripped(sess, data, response_data) ==
    IF data.kind # "object"
      THEN QueryFailed(sess)
    ELSE LET value == IF "query" \in DOMAIN data.fields THEN data.fields.query
                      ELSE Str(<<>>)
         IN  IF value.type # "str"
               THEN QueryFailed(sess)
             ELSE LET text == value.v
                      response == response_data.response
                      token_count == Len(Split(response))
                      counted == [sess EXCEPT !.token_count = @ + token_count]
                  IN  IF text = <<>>
                        THEN [session |-> sess, status |-> 400, pipeline |-> FALSE,
                              body |-> [error |-> <<"Please enter a question">>]]
                      ELSE [session |-> [counted EXCEPT !.chat_history =
                                Append(@, Entry(text, response, token_count))],
                            status |-> 200, pipeline |-> TRUE,
                            body |-> [response |-> response, tokens |-> token_count,
                                      total_tokens |-> counted.token_count]]

\* query: the handler of POST /query on the session init_session left;
\* response_data is what process_with_rag_pipeline returns when it is called
query(sess, data, response_data) ==
    IF data.kind # "object"
      THEN QueryFailed(sess)
    ELSE LET value == IF "query" \in DOMAIN data.fields THEN data.fields.query
                      ELSE Str(<<>>)
         IN  IF value.type # "str"
               THEN QueryFailed(sess)
             ELSE LET text == Strip(value.v)
                      response == response_data.response
                      token_count == Len(Split(response))
                      counted == [sess EXCEPT !.token_count = @ + token_count]
                  IN  IF text = <<>>
                        THEN [session |-> sess, status |-> 400, pipeline |-> FALSE,
                              body |-> [error |-> <<"Please enter a question">>]]
                      ELSE [session |-> [counted EXCEPT !.chat_history =
                                Append(@, Entry(text, response, token_count))],
                            status |-> 200, pipeline |-> TRUE,
                            body |-> [response |-> response, tokens |-> token_count,
                                      total_tokens |-> counted.token_count]]

\* history: the handler of GET /history
history(sess) ==
    [session |-> sess, status |-> 200, pipeline |-> FALSE,
     body |-> [list |-> IF "chat_history" \in DOMAIN sess THEN sess.chat_history
                        ELSE <<>>]]

\* a variant of clear_chat that leaves the token count
ClearHistoryOnly(sess) ==
    [session |-> [sess EXCEPT !.chat_history = <<>>], status |-> 200,
     pipeline |-> FALSE, body |-> [success |-> TRUE]]

\* clear_chat: the handler of POST /clear-chat
clear_chat(sess) ==
    [session |-> [chat_history |-> <<>>, token_count |-> 0], status |-> 200,
     pipeline |-> FALSE, body |-> [success |-> TRUE]]

\* ------------------------------------------------- one session on its own
SessionInit ==
    /\ llm = "ready"
    /\ PipelineIdle
    /\ ValidatorIdle
    /\ ConnectorNew
    /\ ExtractorIdle
    /\ RequestsIdle
    /\ SessionIdle

OutsideSession ==
    <<PipelineVars, ValidatorVars, ConnectorVars, ExtractorVars, RequestVars>>

\* the client keeps the session the response carries
Serve(route, data, served) ==
    /\ session' = served.session
    /\ http' = [route |-> route, data |-> data, before |-> session,
                status |-> served.status, body |-> served.body,
                pipeline |-> served.pipeline]
    /\ UNCHANGED OutsideSession

\* POST /query
PostQuery ==
    /\ Len(init_session(session).chat_history) < MaxHistory
    /\ \E data \in QueryData : \E response_data \in ResponseData :
         Serve("/query", data, query(init_session(session), data, response_data))

\* GET /history
GetHistory == Serve("/history", [kind |-> "invalid"], history(init_session(session)))

\* POST /clear-chat
PostClearChat ==
    Serve("/clear-chat", [kind |-> "invalid"], clear_chat(init_session(session)))

SessionNext ==
    \/ PostQuery
    \/ GetHistory
    \/ PostClearChat

SessionSpec == SessionInit /\ [][SessionNext]_vars

\* ------------------------------------------------------------------ C27
\* C27: after POST /clear-chat the chat history of the session is empty and
\* its token count is zero, whatever the session held before, and a
\* GET /history that follows returns the empty list.
C27_ClearChat ==
    /\ [](http.route = "/clear-chat" =>
            session.chat_history = <<>> /\ session.token_count = 0)
    /\ [][(http.route = "/clear-chat" /\ http'.route = "/history") =>
            http'.body.list = <<>>]_vars

\* the history of a session that held two entries was cleared
C27_Witness ==
    /\ http.route = "/clear-chat"
    /\ "chat_history" \in DOMAIN http.before
    /\ Len(http.before.chat_history) = 2
    /\ http.before.token_count > 0
    /\ session.chat_history = <<>>

\* ------------------------------------------------------------------ C28
\* the tokens of the entries of a history
RECURSIVE Tokens(_)
Tokens(entries) ==
    IF entries = <<>> THEN 0 ELSE Head(entries).tokens + Tokens(Tail(entries))

\* the session a request found, as init_session leaves it
Before == init_session(http.before)

\* the request carried a text that is not empty once stripped
NonEmptyText ==
    /\ http.route = "/query"
    /\ http.data.kind = "object"
    /\ "query" \in DOMAIN http.data.fields
    /\ http.data.fields.query.type = "str"
    /\ Strip(http.data.fields.query.v) # <<>>

\* C28: a /query request whose text is not empty (once stripped, C29 being
\* about the rest) appends exactly one entry to the chat history of the
\* session and adds the tokens of that entry, the number of words of the
\* response, to the session total; and in every state of a session that has
\* its keys, token_count is the sum of the tokens of the history entries.
C28_HistoryAndTokens ==
    /\ NonEmptyText =>
         /\ Len(session.chat_history) = Len(Before.chat_history) + 1
         /\ SubSeq(session.chat_history, 1, Len(Before.chat_history))
              = Before.chat_history
         /\ LET entry == session.chat_history[Len(session.chat_history)]
            IN  /\ entry.query = Strip(http.data.fields.query.v)
                /\ entry.tokens = Len(Split(entry.response))
                /\ session.token_count = Before.token_count + entry.tokens
                /\ http.body.tokens = entry.tokens
                /\ http.body.total_tokens = session.token_count
    /\ "token_count" \in DOMAIN session =>
         session.token_count = Tokens(session.chat_history)

\* a third query was answered with a response of three words
C28_Witness ==
    /\ NonEmptyText
    /\ Len(session.chat_history) = 3
    /\ http.body.tokens = 3
    /\ session.token_count > 3

\* ------------------------------------------------------------------ C29
\* the request carried a text that is empty or only line breaks
BlankText ==
    /\ http.route = "/query"
    /\ http.data.kind = "object"
    /\ "query" \in DOMAIN http.data.fields
    /\ http.data.fields.query.type = "str"
    /\ Strip(http.data.fields.query.v) = <<>>

\* C29: a /query request whose text is empty or only whitespace is answered
\* with status 400 and a body with an error field, the pipeline is not
\* called, and the chat history and the token count of the session are what
\* they were.
C29_BlankRejected ==
    BlankText =>
        /\ http.status = 400
        /\ "error" \in DOMAIN http.body
        /\ ~http.pipeline
        /\ session.chat_history = Before.chat_history
        /\ session.token_count = Before.token_count

\* a text of line breaks only was rejected in a session that holds an entry
C29_Witness ==
    /\ BlankText
    /\ http.data.fields.query.v = <<"\n">>
    /\ http.status = 400
    /\ Len(session.chat_history) = 1

\* ------------------------------------------------------------------ C30
\* what generate_sql_query returns for a close-games query: the template,
\* after no call of the service and with no retry asked for
TemplateReturned(g) == g.calls = 0 /\ g.sql = SimpleCloseGamesQuery /\ ~g.retry

\* C30: for a user query that _is_close_games_query recognises,
\* generate_sql_query returns the template of
\* _generate_simple_close_games_query without calling the text-generation
\* service, whatever the retry count it is called with and whatever the
\* service would answer; the step of the pipeline that calls it records no
\* call and holds the template afterwards.
C30_CloseGamesTemplate ==
    /\ []((pc = "generate" /\ _is_close_games_query(user_query)) =>
            \A retry \in 0..MaxRetries : \A reply \in GenerateReplies :
                TemplateReturned(generate_sql_query(user_query, llm, reply, retry)))
    /\ [][(pc = "generate" /\ pc' # "generate" /\ _is_close_games_query(user_query)) =>
            /\ calls' = calls
            /\ sql_query' = SimpleCloseGamesQuery
            /\ pc' = "generated"]_vars

\* the generator has returned the template for the close-games question and
\* the service was never asked for SQL
C30_Witness ==
    /\ pc = "generated"
    /\ user_query = Q_CloseGames
    /\ sql_query = SimpleCloseGamesQuery
    /\ GenerationCalls = {}

\* ------------------------------------------------------------------ C31
ExtractYear == <<"EXTRACT", "(", "YEAR", "FROM", "game_date", ")">>
StrftimeYear == <<"strftime", "(", "'%Y'", ",", "game_date", ")">>

\* every EXTRACT of the text is the head of EXTRACT(YEAR FROM game_date)
OnlyExtractYear(s) ==
    /\ HasPhrase(s, ExtractYear)
    /\ \A i \in 1..Len(s) : s[i] = "EXTRACT" => At(s, i, ExtractYear)

\* the calls a step has added to the log
Added == SubSeq(calls', Len(calls) + 1, Len(calls'))

\* C31: the SQL text the service produced is passed through
\* _ensure_sqlite_compatibility before validate_sql sees it, and the text
\* that is validated and returned is the repaired one; an output whose
\* EXTRACT is EXTRACT(YEAR FROM game_date) reaches the validator with
\* strftime('%Y', game_date) in its place, holds no EXTRACT and is not
\* rejected for EXTRACT.
C31_RepairedBeforeValidated ==
    [][(pc = "generate" /\ Len(calls') > Len(calls)) =>
         \E reply \in GenerateReplies :
           /\ Added[1] = TextCall("generate_sql_query", llm, reply)
           /\ IF generate_text(llm, reply).raised
                THEN Len(Added) = 1 /\ sql_query' = None
              ELSE LET raw == _extract_sql_from_response(reply.text)
                       fixed == _ensure_sqlite_compatibility(raw)
                   IN  /\ Len(Added) = 2
                       /\ Added[2].op = "validate_sql"
                       /\ Added[2].arg = fixed
                       /\ sql_query' = fixed
                       /\ OnlyExtractYear(raw) =>
                            /\ HasPhrase(fixed, StrftimeYear)
                            /\ ~Has(fixed, "EXTRACT")
                            /\ validate_sql(fixed).reason
                                 # "EXTRACT function not supported in SQLite"]_vars

\* an output with EXTRACT(YEAR FROM game_date) was validated and returned
\* with strftime('%Y', game_date)
C31_Witness ==
    /\ pc = "generated"
    /\ HasPhrase(sql_query, StrftimeYear)
    /\ \E i \in CallsOf("validate_sql") : calls[i].arg = sql_query
    /\ GenerationCalls # {}

\* ------------------------------------------------------------------ C32
\* the execution of the primary query returned at least one row
PrimaryRows ==
    /\ ExecuteCalls # {}
    /\ calls[SetMin(ExecuteCalls)].out = "rows"
    /\ \A k \in StrategyCalls : SetMin(ExecuteCalls) < k

\* C32: a fallback strategy is called only after the primary query failed
\* the validation of process_query or its execution returned an error; when
\* the primary query was executed and returned at least one row, no strategy
\* is called and the record returned has no fallback_used key.
C32_LadderOnlyAfterFailure ==
    /\ StrategyCalls # {} => (PrimaryInvalid \/ PrimaryExecError)
    /\ PrimaryRows =>
         /\ StrategyCalls = {}
         /\ pc = "done" => (result.success /\ "fallback_used" \notin DOMAIN result)

\* the primary query returned rows and the record was returned
C32_Witness ==
    /\ pc = "done"
    /\ PrimaryRows
    /\ Cardinality(ExecuteCalls) = 1
    /\ result.success
    /\ result.query_results # <<>>

\* ------------------------------------------------------------------ C33
\* a record with success = True has been returned
Succeeded == pc = "done" /\ ~raised /\ "success" \in DOMAIN result /\ result.success

\* C33: in every record with success = True that process_query returns,
\* sql_query is a non-empty SQL text and query_results is a non-empty
\* sequence of rows, and the last statement executed is exactly that
\* sql_query and returned rows; a text whose execution returned zero rows is
\* not the sql_query of a record with success = True.
C33_SuccessHasRows ==
    Succeeded =>
        /\ result.sql_query # None
        /\ Truthy(result.sql_query)
        /\ result.query_results # None
        /\ result.query_results # <<>>
        /\ result.query_results = Rows(Len(result.query_results))
        /\ ExecuteCalls # {}
        /\ calls[SetMax(ExecuteCalls)].arg = result.sql_query
        /\ calls[SetMax(ExecuteCalls)].out = "rows"
        /\ \A i \in ExecuteCalls :
               calls[i].out = "empty" => calls[i].arg # result.sql_query

\* the primary query returned no rows, the query without the player filter
\* returned rows, and the record names the second query
C33_Witness ==
    /\ Succeeded
    /\ PrimaryEmpty
    /\ Cardinality(ExecuteCalls) = 2
    /\ result.sql_query # sql_query
    /\ result.query_results # <<>>

\* ------------------------------------------------------------------ C34
\* C34: every SQL text process_query hands to the executor (the primary
\* query, a candidate of the ladder, the query of the empty-result repair)
\* was accepted by an earlier call of validate_sql in the same request.
C34_ValidatedBeforeExecuted ==
    \A i \in ExecuteCalls :
        \E j \in CallsOf("validate_sql") :
            j < i /\ calls[j].arg = calls[i].arg /\ calls[j].out = "valid"

\* ------------------------------------------------------------------ C35
RECURSIVE SumOf(_)
SumOf(seq) == IF seq = <<>> THEN 0 ELSE Head(seq) + SumOf(Tail(seq))

\* C35: after any sequence of calls of execute_query on one connector,
\* successful and failed in any order, avg_execution_time is the arithmetic
\* mean of the times of the successful calls (0 when there was none).
C35_MeanOfSuccessful ==
    LET avg == query_stats.avg_execution_time
    IN  /\ avg.den > 0
        /\ IF run_times = <<>> THEN avg.num = 0
           ELSE avg.num * Len(run_times) = SumOf(run_times) * avg.den

\* ------------------------------------------------------------------ C36
\* the step is DatabaseConnector.close on an open connection; every other
\* step of a connector is a call of execute_query, made directly or by an
\* introspection operation
IsClose == conn = "open" /\ conn' = "closed"

\* C36: in every state of a connector 0 <= failed_queries <= total_queries;
\* every call of execute_query raises total_queries by exactly one whatever
\* its outcome and failed_queries by at most one; close leaves both
\* counters, and neither is ever lowered or reset, also when the connection
\* is opened again.
C36_Counters ==
    /\ [](/\ 0 <= query_stats.failed_queries
          /\ query_stats.failed_queries <= query_stats.total_queries)
    /\ [][IF IsClose
            THEN query_stats' = query_stats
          ELSE /\ query_stats'.total_queries = query_stats.total_queries + 1
               /\ query_stats'.failed_queries
                    \in {query_stats.failed_queries, query_stats.failed_queries + 1}]_vars

\* the third call opened a connection again after a close, and the counters
\* hold the three calls and the one failure
C36_Witness ==
    /\ conn = "open"
    /\ opened = 1
    /\ query_stats.total_queries = 3
    /\ query_stats.failed_queries = 1
    /\ Len(run_times) = 2

\* ------------------------------------------------------------------ C37
\* C37: whatever calls preceded it on the same extractor, a value that
\* _fuzzy_match(text, options) returns, when it returns one, is a member of
\* the options of that call; the cache does not make it return a value of
\* another option list.
C37_MatchIsOption ==
    \A i \in DOMAIN matches :
        matches[i].match # "" => matches[i].match \in Range(matches[i].options)

====
